---- MODULE Spec2Model ----
(***************************************************************************)
(* A model of the packet-trace engine of nfstest: the RDMA reassembly      *)
(* tables (packet/transport/rdmainfo.py), the iWARP RDMAP dispatcher       *)
(* (packet/transport/rdmap.py) and the trace reader and matcher            *)
(* (packet/pktt.py).                                                       *)
(*                                                                         *)
(* Bytes are integers.  A byte of RDMA segment h at intra-segment offset o *)
(* is ChunkByte(h, o), so every byte names the place it belongs to; the    *)
(* bytes of a reduced message are 1, 2, 3, ...                             *)
(***************************************************************************)
EXTENDS Integers, Sequences, FiniteSets, TLC

\* ------------------------------------------------------------------ bounds
\* Number of wire frames handed to the RDMA decoders in one run.
MaxFrames == 5
\* The highest packet index given to rewind.
MaxIndex == 4
\* The most xids of matched calls kept awaiting their reply.
MaxXids == 1
\* The most xids of matched calls awaiting their reply when every match is
\* made with reply=True.
MaxAwait == 2

\* ---------------------------------------------------------- byte universe
\* XDR pad byte as it travels on the wire (distinguished from every data byte).
PadByte == 255
\* The byte python's bytes(count) fills a hole with.
ZeroByte == 0
\* First token value that stands for an encoded RPC-over-RDMA header.
HdrBase == 1000

ChunkByte(h, o) == 10 * h + o

RECURSIVE Concat(_)
\* b"".join(list): concatenation of a sequence of byte strings.
Concat(ss) == IF ss = <<>> THEN <<>> ELSE Head(ss) \o Concat(Tail(ss))

RECURSIVE SumLen(_)
SumLen(ss) == IF ss = <<>> THEN 0 ELSE Len(Head(ss)) + SumLen(Tail(ss))

RECURSIVE SumInts(_)
SumInts(ns) == IF ns = <<>> THEN 0 ELSE Head(ns) + SumInts(Tail(ns))

\* bytes(count)
Zeros(n) == [i \in 1..n |-> ZeroByte]

\* Python slice data[a:b] for 0 <= a, with b clipped to the length.
Slice(s, a, b) ==
    LET hi == IF b > Len(s) THEN Len(s) ELSE b
    IN  IF a >= hi THEN <<>> ELSE SubSeq(s, a + 1, hi)

\* Python slice data[a:]
SliceFrom(s, a) == Slice(s, a, Len(s))

RECURSIVE SortedSeq(_)
\* sorted(keys): the elements of a finite set of integers in ascending order.
SortedSeq(S) ==
    IF S = {} THEN <<>>
    ELSE LET m == CHOOSE x \in S : \A y \in S : x <= y
         IN  <<m>> \o SortedSeq(S \ {m})

EmptyMap == [x \in {} |-> <<>>]
MapPut(m, k, v) == [x \in (DOMAIN m) \cup {k} |-> IF x = k THEN v ELSE m[x]]
MapDel(m, k) == [x \in (DOMAIN m) \ {k} |-> m[x]]

\* ------------------------------------------------- RDMAseg (sub-segment)
\* None for the read-response binding of a segment.
NoneVal == -1

RDMAseg(spsn, epsn, dmalen) ==
    [spsn |-> spsn, epsn |-> epsn, dmalen |-> dmalen, fraglist |-> <<>>]

\* Python data[:n] where n may be negative.
PySliceTo(s, n) ==
    IF n < 0 THEN (IF Len(s) + n <= 0 THEN <<>> ELSE SubSeq(s, 1, Len(s) + n))
    ELSE Slice(s, 0, n)

\* An insertion that puts every fragment of the window at the end of the list.
insert_appended(seg, psn, data) ==
    IF psn >= seg.spsn /\ psn <= seg.epsn
    THEN [ok |-> TRUE, seg |-> [seg EXCEPT !.fraglist = Append(@, data)]]
    ELSE [ok |-> FALSE, seg |-> seg]

\* RDMAseg.insert_data: [ok, seg]
insert_data(seg, psn, data) ==
    IF psn >= seg.spsn /\ psn <= seg.epsn
    THEN LET index == psn - seg.spsn
             nlen  == Len(seg.fraglist)
             fl    == IF index < nlen
                      THEN [seg.fraglist EXCEPT ![index + 1] = data]
                      ELSE seg.fraglist \o [i \in 1..(index - nlen) |-> <<>>] \o <<data>>
         IN  [ok |-> TRUE, seg |-> [seg EXCEPT !.fraglist = fl]]
    ELSE [ok |-> FALSE, seg |-> seg]

\* RDMAseg.get_data
seg_get_data(seg, padding) ==
    LET data == Concat(seg.fraglist)
    IN  IF ~padding /\ Len(data) > seg.dmalen
        THEN PySliceTo(data, seg.dmalen - Len(data))
        ELSE data

\* RDMAseg.get_size
seg_get_size(seg) == SumLen(seg.fraglist)

\* ------------------------------------------------ RDMAsegment (segment)
NoRpcrdma == [hdr |-> 0, data |-> <<>>]

\* RDMAsegment.__init__: rdma_seg is a segment of a chunk list; position is
\* present for read segments only (getattr default 0).
RDMAsegment(rdma_seg, rpcrdma) ==
    [handle |-> rdma_seg.handle, offset |-> rdma_seg.offset,
     length |-> rdma_seg.length, xdrpos |-> rdma_seg.position,
     rpcrdma |-> rpcrdma, rhandle |-> NoneVal, roffset |-> NoneVal,
     rlength |-> NoneVal, fragments |-> EmptyMap, seglist |-> <<>>]

\* RDMAsegment.valid_psn
valid_psn(rs, psn) ==
    \E i \in 1..Len(rs.seglist) :
        psn >= rs.seglist[i].spsn /\ psn <= rs.seglist[i].epsn

\* epsn = psn + int(dmalen/iosize) - 1 + (1 if dmalen%iosize else 0)
LastPsn(psn, dmalen, iosize) ==
    psn + (dmalen \div iosize) - 1 + (IF dmalen % iosize # 0 THEN 1 ELSE 0)

\* A registration that opens a new sub-segment for every First and Only.
add_sub_segment_anew(rs, psn, dmalen, only, iosize) ==
    [rs  |-> [rs EXCEPT !.seglist =
                  Append(rs.seglist,
                         RDMAseg(psn,
                                 IF only \/ iosize = 0 THEN psn
                                 ELSE LastPsn(psn, dmalen, iosize),
                                 dmalen))],
     idx |-> Len(rs.seglist) + 1]

\* RDMAsegment.add_sub_segment: [rs, idx], idx the place of the returned
\* sub-segment in seglist.
add_sub_segment(rs, psn, dmalen, only, iosize) ==
    LET found == {i \in 1..Len(rs.seglist) : rs.seglist[i].spsn = psn}
    IN  IF found # {}
        THEN LET i   == CHOOSE x \in found : \A y \in found : x <= y
                 seg == rs.seglist[i]
             IN  IF only
                 THEN [rs |-> [rs EXCEPT !.seglist[i].epsn = psn], idx |-> i]
                 ELSE IF iosize = 0
                 THEN [rs |-> rs, idx |-> i]
                 ELSE [rs |-> [rs EXCEPT !.seglist[i].epsn =
                                     LastPsn(psn, seg.dmalen, iosize)],
                       idx |-> i]
        ELSE LET epsn == IF only THEN psn
                         ELSE IF iosize = 0 THEN psn
                         ELSE LastPsn(psn, dmalen, iosize)
             IN  [rs  |-> [rs EXCEPT !.seglist =
                               Append(rs.seglist, RDMAseg(psn, epsn, dmalen))],
                  idx |-> Len(rs.seglist) + 1]

\* RDMAsegment.add_data: the first sub-segment whose window holds psn takes it.
add_data(rs, psn, data) ==
    LET ok == {i \in 1..Len(rs.seglist) : insert_data(rs.seglist[i], psn, data).ok}
    IN  IF ok = {} THEN rs
        ELSE LET i == CHOOSE x \in ok : \A y \in ok : x <= y
             IN  [rs EXCEPT !.seglist[i] = insert_data(rs.seglist[i], psn, data).seg]

\* RDMAsegment.get_offset
get_offset(rs) == IF rs.roffset = NoneVal THEN rs.offset ELSE rs.roffset

RECURSIVE FragWalk(_, _, _, _)
\* The loop of get_data over sorted(self.fragments.keys()).
FragWalk(frags, offs, nextoff, data) ==
    IF offs = <<>> THEN data
    ELSE LET offset == Head(offs)
             count  == offset - nextoff
             d1     == IF count > 0 THEN data \o Zeros(count) ELSE data
         IN  FragWalk(frags, Tail(offs), offset + Len(frags[offset]),
                      d1 \o frags[offset])

RECURSIVE SizeWalk(_, _, _, _)
\* The loop of get_size over sorted(self.fragments.keys()).
SizeWalk(frags, offs, nextoff, size) ==
    IF offs = <<>> THEN size
    ELSE LET offset == Head(offs)
             count  == offset - nextoff
             s1     == IF count > 0 THEN size + count ELSE size
         IN  SizeWalk(frags, Tail(offs), offset + Len(frags[offset]),
                      s1 + Len(frags[offset]))

\* RDMAsegment.get_data
get_data(rs, padding) ==
    IF Len(rs.seglist) > 0
    THEN Concat([i \in 1..Len(rs.seglist) |-> seg_get_data(rs.seglist[i], padding)])
    ELSE IF DOMAIN rs.fragments # {}
    THEN LET data == FragWalk(rs.fragments, SortedSeq(DOMAIN rs.fragments),
                              get_offset(rs), <<>>)
         IN  IF ~padding /\ Len(data) > rs.length
             THEN PySliceTo(data, rs.length - Len(data))
             ELSE data
    ELSE <<>>

\* RDMAsegment.get_size
get_size(rs) ==
    IF Len(rs.seglist) > 0
    THEN SumInts([i \in 1..Len(rs.seglist) |-> seg_get_size(rs.seglist[i])])
    ELSE SizeWalk(rs.fragments, SortedSeq(DOMAIN rs.fragments), get_offset(rs), 0)

\* RDMAsegment.add_request
add_request(rs, rdmap) ==
    [rs EXCEPT !.rhandle = rdmap.sinkstag, !.roffset = rdmap.sinksto,
               !.rlength = rdmap.dma_len]

\* RDMAsegment.add_fragment
add_fragment(rs, rdmap) ==
    [rs EXCEPT !.fragments = MapPut(rs.fragments, rdmap.offset, rdmap.data)]

\* ---------------------------------------------------------------- RDMAinfo
\* The segment table _rdma_segments is a python dict: a sequence of
\* [key, obj] in insertion order.  obj is the place of the RDMAsegment object
\* in the heap, so that two keys can name the same object (add_iwarp_request);
\* 0 stands for None.

\* dict.get(key)
TabGet(tab, key) ==
    LET S == {i \in 1..Len(tab) : tab[i].key = key}
    IN  IF S = {} THEN 0 ELSE tab[CHOOSE i \in S : TRUE].obj

\* dict.pop(key, None)
TabPop(tab, key) == SelectSeq(tab, LAMBDA e : e.key # key)

\* dict[key] = obj
TabSet(tab, key, obj) ==
    LET S == {i \in 1..Len(tab) : tab[i].key = key}
    IN  IF S = {} THEN Append(tab, [key |-> key, obj |-> obj])
        ELSE [tab EXCEPT ![CHOOSE i \in S : TRUE].obj = obj]

\* RDMAinfo.get_rdma_segment
get_rdma_segment(tab, handle) == TabGet(tab, handle)

\* RDMAinfo.del_rdma_segment: the table without the segment's keys.
del_rdma_segment(tab, heap, obj) ==
    IF obj = 0 THEN tab
    ELSE LET t1 == TabPop(tab, heap[obj].handle)
         IN  IF heap[obj].rhandle # NoneVal
             THEN TabPop(t1, heap[obj].rhandle)
             ELSE t1

\* A registration that makes a new object for a handle that has one.
add_segment_anew(tab, heap, rdma_seg, rpcrdma) ==
    [tab  |-> TabSet(tab, rdma_seg.handle, Len(heap) + 1),
     heap |-> Append(heap, RDMAsegment(rdma_seg, rpcrdma)),
     ret  |-> TabGet(tab, rdma_seg.handle)]

\* RDMAinfo.add_rdma_segment: [tab, heap, ret]; ret is the segment found, and
\* None (0) when the segment was added.
add_rdma_segment(tab, heap, rdma_seg, rpcrdma) ==
    LET rsegment == TabGet(tab, rdma_seg.handle)
    IN  IF rsegment # 0
        THEN [tab  |-> tab,
              heap |-> [heap EXCEPT ![rsegment].length = rdma_seg.length],
              ret  |-> rsegment]
        ELSE [tab  |-> TabSet(tab, rdma_seg.handle, Len(heap) + 1),
              heap |-> Append(heap, RDMAsegment(rdma_seg, rpcrdma)),
              ret  |-> 0]

\* A placement that opens a window in the first segment of the table for a
\* fragment whose PSN is in none.
add_rdma_data_lax(tab, heap, psn, data, reth, only, read) ==
    IF reth # <<>>
    THEN LET rsegment == get_rdma_segment(tab, reth[1].r_key)
         IN  IF rsegment # 0
             THEN LET size == Len(data)
                      r    == add_sub_segment(heap[rsegment], psn, reth[1].dma_len, only, size)
                      rs2  == IF size > 0
                              THEN [r.rs EXCEPT !.seglist[r.idx] =
                                        insert_data(r.rs.seglist[r.idx], psn, data).seg]
                              ELSE r.rs
                  IN  [heap |-> [heap EXCEPT ![rsegment] = rs2], ret |-> rsegment]
             ELSE [heap |-> heap, ret |-> 0]
    ELSE LET ok == {i \in 1..Len(tab) : valid_psn(heap[tab[i].obj], psn)}
         IN  IF ok = {} /\ tab = <<>> THEN [heap |-> heap, ret |-> 0]
             ELSE IF ok = {}
             THEN [heap |-> [heap EXCEPT ![tab[1].obj] =
                       add_data(add_sub_segment(@, psn, Len(data), TRUE, 0).rs,
                                psn, data)],
                   ret |-> tab[1].obj]
             ELSE LET rsegment == tab[CHOOSE x \in ok : \A y \in ok : x <= y].obj
                      size     == Len(data)
                  IN  IF read
                      THEN LET r == add_sub_segment(heap[rsegment], psn, 0, only, size)
                           IN  [heap |-> [heap EXCEPT ![rsegment] =
                                    [r.rs EXCEPT !.seglist[r.idx] =
                                        insert_data(r.rs.seglist[r.idx], psn, data).seg]],
                                ret |-> rsegment]
                      ELSE [heap |-> [heap EXCEPT ![rsegment] =
                                          add_data(heap[rsegment], psn, data)],
                            ret |-> rsegment]

\* RDMAinfo.add_rdma_data: [heap, ret].  reth is <<>> (None) or <<[r_key, dma_len]>>.
add_rdma_data(tab, heap, psn, data, reth, only, read) ==
    IF reth # <<>>
    THEN LET rsegment == get_rdma_segment(tab, reth[1].r_key)
         IN  IF rsegment # 0
             THEN LET size == Len(data)
                      r    == add_sub_segment(heap[rsegment], psn, reth[1].dma_len, only, size)
                      rs2  == IF size > 0
                              THEN [r.rs EXCEPT !.seglist[r.idx] =
                                        insert_data(r.rs.seglist[r.idx], psn, data).seg]
                              ELSE r.rs
                  IN  [heap |-> [heap EXCEPT ![rsegment] = rs2], ret |-> rsegment]
             ELSE [heap |-> heap, ret |-> 0]
    ELSE LET ok == {i \in 1..Len(tab) : valid_psn(heap[tab[i].obj], psn)}
         IN  IF ok = {} THEN [heap |-> heap, ret |-> 0]
             ELSE LET rsegment == tab[CHOOSE x \in ok : \A y \in ok : x <= y].obj
                      size     == Len(data)
                  IN  IF read
                      THEN LET r == add_sub_segment(heap[rsegment], psn, 0, only, size)
                           IN  [heap |-> [heap EXCEPT ![rsegment] =
                                    [r.rs EXCEPT !.seglist[r.idx] =
                                        insert_data(r.rs.seglist[r.idx], psn, data).seg]],
                                ret |-> rsegment]
                      ELSE [heap |-> [heap EXCEPT ![rsegment] =
                                          add_data(heap[rsegment], psn, data)],
                            ret |-> rsegment]

\* RDMAinfo.add_iwarp_data: [heap, ret]
add_iwarp_data(tab, heap, rdmap) ==
    LET rsegment == get_rdma_segment(tab, rdmap.stag)
    IN  IF rsegment # 0
        THEN [heap |-> [heap EXCEPT ![rsegment] = add_fragment(heap[rsegment], rdmap)],
              ret  |-> rsegment]
        ELSE [heap |-> heap, ret |-> 0]

\* RDMAinfo.add_iwarp_request: [tab, heap]
add_iwarp_request(tab, heap, rdmap) ==
    LET rsegment == get_rdma_segment(tab, rdmap.srcstag)
    IN  IF rsegment # 0
        THEN [tab  |-> TabSet(tab, rdmap.sinkstag, rsegment),
              heap |-> [heap EXCEPT ![rsegment] = add_request(heap[rsegment], rdmap)]]
        ELSE [tab |-> tab, heap |-> heap]

\* ------------------------------------------------ RPC-over-RDMA headers
\* A read segment (position, handle, offset, length) and a plain segment of a
\* write or reply chunk, which has no position (RDMAsegment reads it as 0).
RS(position, handle, length) ==
    [position |-> position, handle |-> handle, offset |-> 0, length |-> length]
WS(handle, length) ==
    [position |-> 0, handle |-> handle, offset |-> 0, length |-> length]

\* The headers the modelled traces carry.  reads is the read list, writes the
\* list of write chunks (each a list of segments), reply is <<>> or <<target>>.
\* data is the reduced message that follows the header in the Send.
Headers == <<
    \* 1: call with two read chunks; the whole message is 1 2 c c 3 4 c c 5 6
    [proc |-> "RDMA_MSG", reads |-> <<RS(2, 1, 2), RS(6, 2, 2)>>,
     writes |-> <<>>, reply |-> <<>>, data |-> <<1, 2, 3, 4, 5, 6>>],
    \* 2: call with a Position-Zero Read Chunk of 3 bytes (padded on the wire)
    [proc |-> "RDMA_MSG", reads |-> <<RS(0, 1, 3)>>,
     writes |-> <<>>, reply |-> <<>>, data |-> <<1, 2>>],
    \* 3: call that offers a reply chunk of one 4-byte segment
    [proc |-> "RDMA_MSG", reads |-> <<>>, writes |-> <<>>,
     reply |-> << <<WS(1, 4)>> >>, data |-> <<1, 2>>],
    \* 4: the RDMA_NOMSG reply that was written into the reply chunk
    [proc |-> "RDMA_NOMSG", reads |-> <<>>, writes |-> <<>>,
     reply |-> << <<WS(1, 4)>> >>, data |-> <<>>],
    \* 5: call or reply with two write chunks
    [proc |-> "RDMA_MSG", reads |-> <<>>,
     writes |-> << <<WS(1, 2)>>, <<WS(2, 2), WS(3, 2)>> >>,
     reply |-> <<>>, data |-> <<1, 2>>],
    \* 6: call or reply whose write list has a chunk with no segment
    [proc |-> "RDMA_MSG", reads |-> <<>>,
     writes |-> << <<WS(2, 2)>>, <<>>, <<WS(1, 2)>> >>,
     reply |-> <<>>, data |-> <<3, 4>>],
    \* 7: call with one read chunk of 3 bytes at position 2 (InfiniBand)
    [proc |-> "RDMA_MSG", reads |-> <<RS(2, 1, 3)>>,
     writes |-> <<>>, reply |-> <<>>, data |-> <<1, 2, 3>>],
    \* 8: call with a Position-Zero Read Chunk of 3 bytes (InfiniBand)
    [proc |-> "RDMA_MSG", reads |-> <<RS(0, 1, 3)>>,
     writes |-> <<>>, reply |-> <<>>, data |-> <<1, 2>>],
    \* 9: reply that returns one write chunk with a shorter segment
    [proc |-> "RDMA_MSG", reads |-> <<>>,
     writes |-> << <<WS(1, 1)>> >>,
     reply |-> <<>>, data |-> <<5>>],
    \* 10: call that offers a reply chunk of two segments, handle 2 first
    [proc |-> "RDMA_MSG", reads |-> <<>>, writes |-> <<>>,
     reply |-> << <<WS(2, 2), WS(1, 2)>> >>, data |-> <<1, 2>>],
    \* 11: the RDMA_NOMSG reply that was written into those two segments
    [proc |-> "RDMA_NOMSG", reads |-> <<>>, writes |-> <<>>,
     reply |-> << <<WS(2, 2), WS(1, 2)>> >>, data |-> <<>>],
    \* 12: call or reply with no chunk list at all
    [proc |-> "RDMA_MSG", reads |-> <<>>, writes |-> <<>>,
     reply |-> <<>>, data |-> <<7, 8>>]
>>

\* The bytes of a Send that carries header h: the encoded header, then the
\* reduced message.
SendBytes(h) == <<HdrBase + h>> \o Headers[h].data

\* RPCoRDMA(unpack): decodes the header at the cursor or raises; [ok, hdr, rest]
RPCoRDMA(unpack) ==
    IF Len(unpack) > 0 /\ unpack[1] > HdrBase /\ unpack[1] - HdrBase \in DOMAIN Headers
    THEN [ok |-> TRUE, hdr |-> unpack[1] - HdrBase, rest |-> Tail(unpack)]
    ELSE [ok |-> FALSE, hdr |-> 0, rest |-> unpack]

\* ------------------------------------------- RDMAinfo.reassemble_rdma_reads
RECURSIVE CollectReads(_, _, _, _)
\* The loop "Check if all segments are done": [ok, rc]; rc maps each XDR
\* position to the list of segments of its chunk.
CollectReads(tab, heap, reads, rc) ==
    IF reads = <<>> THEN [ok |-> TRUE, rc |-> rc]
    ELSE LET rsegment == TabGet(tab, Head(reads).handle)
         IN  IF rsegment = 0 \/ get_size(heap[rsegment]) < heap[rsegment].length
             THEN [ok |-> FALSE, rc |-> rc]
             ELSE LET xp    == heap[rsegment].xdrpos
                      slist == IF xp \in DOMAIN rc THEN rc[xp] ELSE <<>>
                  IN  CollectReads(tab, heap, Tail(reads),
                                   MapPut(rc, xp, Append(slist, rsegment)))

\* A splice that keeps the pad bytes of every chunk, position zero included.
ChunkPaddingAlways(xdrpos) == TRUE

\* padding = False if xdrpos == 0 else True
ChunkPadding(xdrpos) == xdrpos # 0

\* The bytes of the reduced message put before the chunk at xdrpos, and the
\* new offset into the reduced message: [bytes, offset]
ReducedBefore(reduced_data, offset, xdrpos, datalen) ==
    LET size == xdrpos - datalen
    IN  [bytes |-> Slice(reduced_data, offset, size), offset |-> size]

RECURSIVE SpliceChunks(_, _, _, _, _, _)
\* The loop "Reassemble the whole message": [data, offset]
SpliceChunks(heap, rc, poss, reduced_data, data, offset) ==
    IF poss = <<>> THEN [data |-> data, offset |-> offset]
    ELSE LET xdrpos == Head(poss)
             pre    == xdrpos > Len(data)
             rb     == ReducedBefore(reduced_data, offset, xdrpos, Len(data))
             d1     == IF pre THEN data \o rb.bytes ELSE data
             o1     == IF pre THEN rb.offset ELSE offset
             d2     == d1 \o Concat([i \in 1..Len(rc[xdrpos]) |->
                                 get_data(heap[rc[xdrpos][i]], ChunkPadding(xdrpos))])
         IN  SpliceChunks(heap, rc, Tail(poss), reduced_data, d2, o1)

RECURSIVE DelAll(_, _, _)
\* del_rdma_segment for every segment of a list.
DelAll(tab, heap, objs) ==
    IF objs = <<>> THEN tab
    ELSE DelAll(del_rdma_segment(tab, heap, Head(objs)), heap, Tail(objs))

\* Whether a read response carrying the DDP Last flag l ends the fragment
\* series (rdmap.lastfl == 0 returns before reassembly).
IsLastResponse(lastfl) == lastfl # 0

\* "Reassemble the whole message" to the end, given the chunk map rc and its
\* sorted positions and the spliced result sp: [tab, heap, ret]
reassemble_finish(tab, heap, reduced_data, all, sp) ==
    [tab  |-> DelAll(tab, heap, all), heap |-> heap,
     ret  |-> << IF Len(reduced_data) > sp.offset
                 THEN sp.data \o SliceFrom(reduced_data, sp.offset)
                 ELSE sp.data >>]

\* for xdrpos in sorted(rdma_chunks.keys()): ...
reassemble_chunks(tab, heap, reduced_data, rc, poss) ==
    reassemble_finish(tab, heap, reduced_data,
                      Concat([i \in 1..Len(poss) |-> rc[poss[i]]]),
                      SpliceChunks(heap, rc, poss, reduced_data, <<>>, 0))

\* The outcome c of the completeness loop decides: return None, or reassemble.
reassemble_checked(tab, heap, reduced_data, c) ==
    IF ~c.ok THEN [tab |-> tab, heap |-> heap, ret |-> <<>>]
    ELSE reassemble_chunks(tab, heap, reduced_data, c.rc, SortedSeq(DOMAIN c.rc))

\* From "Get saved RPCoRDMA object" on: [tab, heap, ret], ret is <<>> (None)
\* or <<data>>.
reassemble_from(tab, heap, rsegment) ==
    IF heap[rsegment].rpcrdma.hdr = 0
    THEN [tab |-> tab, heap |-> heap, ret |-> <<>>]
    ELSE reassemble_checked(tab, heap, heap[rsegment].rpcrdma.data,
             CollectReads(tab, heap, Headers[heap[rsegment].rpcrdma.hdr].reads,
                          EmptyMap))

\* After the data was added (a is [heap, ret] of add_rdma_data/add_iwarp_data):
\* "if rsegment is None or (rdmap and rdmap.lastfl == 0): return"
reassemble_added(tab, rdmap, a) ==
    IF a.ret = 0 \/ (rdmap # <<>> /\ ~IsLastResponse(rdmap[1].lastfl))
    THEN [tab |-> tab, heap |-> a.heap, ret |-> <<>>]
    ELSE reassemble_from(tab, a.heap, a.ret)

\* RDMAinfo.reassemble_rdma_reads: [tab, heap, ret].  rdmap is <<>> (None, the
\* InfiniBand caller gives psn and only) or <<rdmap>> (iWARP).
reassemble_rdma_reads(tab, heap, data, psn, only, rdmap) ==
    reassemble_added(tab, rdmap,
        IF rdmap = <<>>
        THEN add_rdma_data(tab, heap, psn, data, <<>>, only, only)
        ELSE add_iwarp_data(tab, heap, rdmap[1]))

\* ------------------------------------------- RDMAinfo.process_rdma_segments
RECURSIVE AddReads(_, _, _, _)
\* "Add all segments in the RDMA read chunk list": [tab, heap]
AddReads(tab, heap, reads, rpcrdma) ==
    IF reads = <<>> THEN [tab |-> tab, heap |-> heap]
    ELSE LET a == add_rdma_segment(tab, heap, Head(reads), rpcrdma)
         IN  AddReads(a.tab, a.heap, Tail(reads), rpcrdma)

RECURSIVE AddTarget(_, _, _, _)
\* "Process all segments in RDMA write chunk": [tab, heap, list], list the
\* segments appended to rdma_write_chunks[-1].
AddTarget(tab, heap, target, list) ==
    IF target = <<>> THEN [tab |-> tab, heap |-> heap, list |-> list]
    ELSE LET a == add_rdma_segment(tab, heap, Head(target), NoRpcrdma)
         IN  AddTarget(a.tab, a.heap, Tail(target),
                       IF a.ret # 0 THEN Append(list, a.ret) ELSE list)

\* A write list walk that keeps the entry of a chunk with no segment.
KeepChunkAlways(list) == TRUE

\* "Clear list of RDMA write chunks if no segments were added"
KeepChunk(list) == Len(list) # 0

RECURSIVE AddWrites(_, _, _, _)
\* "Process RDMA write chunk list": [tab, heap, chunks]
AddWrites(tab, heap, writes, chunks) ==
    IF writes = <<>> THEN [tab |-> tab, heap |-> heap, chunks |-> chunks]
    ELSE LET a == AddTarget(tab, heap, Head(writes), <<>>)
         IN  AddWrites(a.tab, a.heap, Tail(writes),
                       IF KeepChunk(a.list) THEN Append(chunks, a.list) ELSE chunks)

RECURSIVE AddReplyFront(_, _, _, _)
\* A reply chunk gathered with each segment's bytes put before the others'.
AddReplyFront(tab, heap, target, replydata) ==
    IF target = <<>> THEN [tab |-> tab, heap |-> heap, replydata |-> replydata]
    ELSE LET a == add_rdma_segment(tab, heap, Head(target), NoRpcrdma)
         IN  IF a.ret # 0
             THEN AddReplyFront(del_rdma_segment(a.tab, a.heap, a.ret), a.heap,
                                Tail(target),
                                get_data(a.heap[a.ret], TRUE) \o replydata)
             ELSE AddReplyFront(a.tab, a.heap, Tail(target), replydata)

RECURSIVE AddReply(_, _, _, _)
\* "Process all segments in the RDMA reply chunk": [tab, heap, replydata]
AddReply(tab, heap, target, replydata) ==
    IF target = <<>> THEN [tab |-> tab, heap |-> heap, replydata |-> replydata]
    ELSE LET a == add_rdma_segment(tab, heap, Head(target), NoRpcrdma)
         IN  IF a.ret # 0
             THEN AddReply(del_rdma_segment(a.tab, a.heap, a.ret), a.heap, Tail(target),
                           replydata \o get_data(a.heap[a.ret], TRUE))
             ELSE AddReply(a.tab, a.heap, Tail(target), replydata)

\* "if rpcrdma.reply:" given r2, the [tab, heap, chunks] after the write list.
process_reply(h, r2) ==
    IF h.reply # <<>>
    THEN [chunks |-> r2.chunks] @@ AddReply(r2.tab, r2.heap, h.reply[1], <<>>)
    ELSE [tab |-> r2.tab, heap |-> r2.heap, chunks |-> r2.chunks,
          replydata |-> <<>>]

\* "if rpcrdma.writes:" given r1, the [tab, heap] after the read list.
process_writes(h, chunks, r1) ==
    process_reply(h,
        IF h.writes # <<>> THEN AddWrites(r1.tab, r1.heap, h.writes, <<>>)
        ELSE [tab |-> r1.tab, heap |-> r1.heap, chunks |-> chunks])

\* RDMAinfo.process_rdma_segments: [tab, heap, chunks, replydata]
process_rdma_segments(tab, heap, chunks, rpcrdma) ==
    process_writes(Headers[rpcrdma.hdr], chunks,
        IF Headers[rpcrdma.hdr].reads # <<>>
        THEN AddReads(tab, heap, Headers[rpcrdma.hdr].reads, rpcrdma)
        ELSE [tab |-> tab, heap |-> heap])

\* ------------------------------------------------------------------ state
VARIABLES
    scn,               \* the trace being decoded (a name of Scenarios)
    nframes,           \* wire frames decoded so far
    rdma_segments,     \* RDMAinfo._rdma_segments
    heap,              \* the RDMAsegment objects, by place
    rdma_write_chunks, \* RDMAbase.rdma_write_chunks (shared class attribute)
    senddata,          \* RDMAP._senddata: queue -> msn -> offset -> bytes
    rpc_log,           \* every invocation of the RPC decoder: its frame and bytes
    last_op,           \* the frame decoded last and what the header processing saw
    trace,             \* the trace a Pktt object is made for (a name of Traces)
    pktt,              \* the Pktt object
    since,             \* the packets next(self) handed out in a row
    out,               \* the last call on the Pktt object and its return value
    disk,              \* the records written so far to the files of a live capture
    packets,            \* the Pkt objects made, by place
    call               \* the last call on a packet or on a function, and its result

rdma_vars == <<scn, nframes, rdma_segments, heap, rdma_write_chunks, senddata,
               rpc_log, last_op>>

pktt_vars == <<trace, pktt, since, out, disk>>

lib_vars == <<packets, call>>

\* No packet object was made and no function was called.
LibIdle == packets = <<>> /\ call = [op |-> "none"]

\* ------------------------------------------------------------ wire frames
SendF(queue, msn, offset, lastfl, data) ==
    [op |-> "Send", queue |-> queue, msn |-> msn, offset |-> offset,
     lastfl |-> lastfl, data |-> data]
WriteF(stag, offset, lastfl, data) ==
    [op |-> "RDMA_Write", stag |-> stag, offset |-> offset, lastfl |-> lastfl,
     data |-> data]
ReadRequestF(sinkstag, sinksto, dma_len, srcstag) ==
    [op |-> "RDMA_Read_Request", sinkstag |-> sinkstag, sinksto |-> sinksto,
     dma_len |-> dma_len, srcstag |-> srcstag]
ReadResponseF(stag, offset, lastfl, data) ==
    [op |-> "RDMA_Read_Response", stag |-> stag, offset |-> offset,
     lastfl |-> lastfl, data |-> data]
\* An InfiniBand frame: BTH opcode and PSN, RETH (<<>> when the opcode has none).
IbF(opcode, psn, reth, data) ==
    [op |-> "IB", opcode |-> opcode, psn |-> psn, reth |-> reth, data |-> data]
RETH(r_key, dma_len) == <<[r_key |-> r_key, dma_len |-> dma_len]>>

\* The frames of each modelled trace.  A run decodes frames of its trace in
\* any order, any frame any number of times (reordering, loss, retransmission).
Scenarios ==
    [reads2 |->
        {SendF(0, 1, 0, 1, SendBytes(1)),
         ReadRequestF(4, 0, 2, 1),
         ReadResponseF(4, 0, 1, <<ChunkByte(1, 0), ChunkByte(1, 1)>>),
         ReadRequestF(5, 0, 2, 2),
         ReadResponseF(5, 0, 1, <<ChunkByte(2, 0), ChunkByte(2, 1)>>)},
     pzrc |->
        {SendF(0, 1, 0, 0, <<HdrBase + 2, 1>>),
         SendF(0, 1, 2, 1, <<2>>),
         ReadRequestF(4, 0, 4, 1),
         ReadResponseF(4, 0, 0, <<ChunkByte(1, 0), ChunkByte(1, 1)>>),
         ReadResponseF(4, 2, 1, <<ChunkByte(1, 2), PadByte>>)},
     ibreply |->
        {SendF(0, 1, 0, 1, SendBytes(3)),
         IbF("RDMA_WRITE_First", 1, RETH(1, 2), <<ChunkByte(1, 0)>>),
         IbF("RDMA_WRITE_Last", 2, <<>>, <<ChunkByte(1, 1)>>),
         IbF("RDMA_WRITE_Only", 3, RETH(1, 2), <<ChunkByte(1, 2), ChunkByte(1, 3)>>),
         SendF(0, 2, 0, 1, SendBytes(4))},
     writes |->
        {SendF(0, 1, 0, 1, SendBytes(5)),
         SendF(0, 2, 0, 1, SendBytes(6)),
         SendF(0, 3, 0, 1, SendBytes(9)),
         WriteF(1, 0, 1, <<ChunkByte(1, 0), ChunkByte(1, 1)>>),
         WriteF(2, 0, 1, <<ChunkByte(2, 0), ChunkByte(2, 1)>>),
         WriteF(3, 0, 1, <<ChunkByte(3, 0), ChunkByte(3, 1)>>)},
     reply2 |->
        {SendF(0, 1, 0, 1, SendBytes(10)),
         WriteF(2, 0, 1, <<ChunkByte(2, 0), ChunkByte(2, 1)>>),
         WriteF(1, 0, 1, <<ChunkByte(1, 0), ChunkByte(1, 1)>>),
         SendF(0, 2, 0, 1, SendBytes(11))},
     sendfrag |->
        {SendF(1, 1, 0, 0, <<HdrBase + 6>>),
         SendF(1, 1, 1, 0, <<3>>),
         SendF(1, 1, 2, 1, <<4>>)},
     ibread |->
        {SendF(0, 1, 0, 1, SendBytes(7)),
         IbF("RDMA_READ_Request", 1, RETH(1, 3), <<>>),
         IbF("RDMA_READ_Response_First", 1, <<>>, <<ChunkByte(1, 0), ChunkByte(1, 1)>>),
         IbF("RDMA_READ_Response_Last", 2, <<>>, <<ChunkByte(1, 2)>>)},
     ibpzrc |->
        {SendF(0, 1, 0, 1, SendBytes(8)),
         IbF("RDMA_READ_Request", 1, RETH(1, 3), <<>>),
         IbF("RDMA_READ_Response_Only", 1, <<>>,
             <<ChunkByte(1, 0), ChunkByte(1, 1), ChunkByte(1, 2), PadByte>>)}]

\* ------------------------------------------------- RDMAP._decode_payload
\* The state the decoders work on, as one record.
RdmaState ==
    [tab |-> rdma_segments, heap |-> heap, chunks |-> rdma_write_chunks,
     senddata |-> senddata, log |-> rpc_log]

\* RPC(pktt): the RPC decoder is given the bytes left in the working buffer.
LogRpc(log, f, hdr, data) ==
    Append(log, [frame |-> nframes + 1, op |-> f.op, hdr |-> hdr, data |-> data])

\* The RPC layer after the header was processed (r is the result of
\* process_rdma_segments, rest the bytes left in the working buffer):
\* "if rpcordma.proc == RDMA_MSG and not rpcordma.reads" decodes the bytes left,
\* "elif rpcordma.proc == RDMA_NOMSG and replydata" decodes the reply chunk.
decode_rpc(st, f, hdr, rest, r) ==
    [st EXCEPT !.tab = r.tab, !.heap = r.heap, !.chunks = r.chunks,
               !.log = IF Headers[hdr].proc = "RDMA_MSG" /\ Headers[hdr].reads = <<>>
                       THEN LogRpc(st.log, f, hdr, rest)
                       ELSE IF Headers[hdr].proc = "RDMA_NOMSG" /\ r.replydata # <<>>
                       THEN LogRpc(st.log, f, hdr, r.replydata \o rest)
                       ELSE st.log]

\* "if rpcordma.reads: rpcordma.data = unpack.read(len(unpack))" and
\* "self.process_rdma_segments(rpcordma)"
decode_header(st, f, hdr, rest) ==
    IF Headers[hdr].reads # <<>>
    THEN decode_rpc(st, f, hdr, <<>>,
             process_rdma_segments(st.tab, st.heap, st.chunks,
                                   [hdr |-> hdr, data |-> rest]))
    ELSE decode_rpc(st, f, hdr, rest,
             process_rdma_segments(st.tab, st.heap, st.chunks,
                                   [hdr |-> hdr, data |-> <<>>]))

\* "if rpcordma and rpcordma.vers == 1 and rdma.rdma_proc.get(rpcordma.proc)"
\* given p, the outcome of RPCoRDMA(unpack).
decode_parsed(st, f, p) ==
    IF ~p.ok THEN st
    ELSE IF Headers[p.hdr].proc = "RDMA_ERROR" THEN st
    ELSE decode_header(st, f, p.hdr, p.rest)

\* "rpcordma = RPCoRDMA(unpack)" and what follows.
decode_rpcordma(st, f, unpack) == decode_parsed(st, f, RPCoRDMA(unpack))

\* The saved fragments and this one put together from the highest offset down.
SendReversed(sdata) ==
    Concat([i \in 1..Cardinality(DOMAIN sdata) |->
                sdata[SortedSeq(DOMAIN sdata)[Cardinality(DOMAIN sdata) + 1 - i]]])

\* "Reassemble all fragments": the saved fragments and this one, by offset.
SendReassembled(sdata) ==
    Concat([i \in 1..Cardinality(DOMAIN sdata) |->
                sdata[SortedSeq(DOMAIN sdata)[i]]])

\* The Send branch of _decode_payload.
decode_send(st, f) ==
    IF f.lastfl # 0
    THEN IF f.queue \in DOMAIN st.senddata /\ f.msn \in DOMAIN st.senddata[f.queue]
         THEN decode_rpcordma(
                  [st EXCEPT !.senddata[f.queue] = MapDel(@, f.msn)], f,
                  SendReassembled(MapPut(st.senddata[f.queue][f.msn],
                                         f.offset, f.data)))
         ELSE decode_rpcordma(st, f, f.data)
    ELSE LET squeue == IF f.queue \in DOMAIN st.senddata
                       THEN st.senddata[f.queue] ELSE EmptyMap
             sdata  == IF f.msn \in DOMAIN squeue THEN squeue[f.msn] ELSE EmptyMap
         IN  [st EXCEPT !.senddata =
                 MapPut(st.senddata, f.queue,
                        MapPut(squeue, f.msn, MapPut(sdata, f.offset, f.data)))]

\* The RDMA_Write branch.
decode_write(st, f) ==
    [st EXCEPT !.heap = add_iwarp_data(st.tab, st.heap, f).heap]

\* The RDMA_Read_Request branch.
decode_read_request(st, f) ==
    LET r == add_iwarp_request(st.tab, st.heap, f)
    IN  [st EXCEPT !.tab = r.tab, !.heap = r.heap]

\* "if data is not None: ... self._rpc = RPC(pktt)": r is the [tab, heap, ret]
\* of reassemble_rdma_reads, hdr the header saved with the segment.
decode_reassembled(st, f, hdr, r) ==
    [st EXCEPT !.tab = r.tab, !.heap = r.heap,
               !.log = IF r.ret # <<>> THEN LogRpc(st.log, f, hdr, r.ret[1])
                       ELSE st.log]

\* The header saved with the segment an object of the heap stands for (0 when
\* there is no such segment).
SavedHdr(objs, obj) == IF obj = 0 THEN 0 ELSE objs[obj].rpcrdma.hdr

\* The RDMA_Read_Response branch.
decode_read_response(st, f) ==
    decode_reassembled(st, f,
        SavedHdr(st.heap, get_rdma_segment(st.tab, f.stag)),
        reassemble_rdma_reads(st.tab, st.heap, f.data, 0, FALSE, <<f>>))

\* ----------------------------------------------- InfiniBand (packet/transport/ib)
\* The InfiniBand decoder hands each RDMA opcode to RDMAinfo: First, Only and
\* the read request carry the RETH; Middle and Last fragments are placed by
\* PSN; the read response Last and Only end a read and reassemble it.
decode_ib(st, f) ==
    IF f.opcode \in {"RDMA_READ_Response_Last", "RDMA_READ_Response_Only"}
    THEN decode_reassembled(st, f,
             SavedHdr(st.heap,
                 add_rdma_data(st.tab, st.heap, f.psn, f.data, <<>>,
                               f.opcode = "RDMA_READ_Response_Only",
                               f.opcode = "RDMA_READ_Response_Only").ret),
             reassemble_rdma_reads(st.tab, st.heap, f.data, f.psn,
                                   f.opcode = "RDMA_READ_Response_Only", <<>>))
    ELSE [st EXCEPT !.heap =
             add_rdma_data(st.tab, st.heap, f.psn, f.data, f.reth,
                           f.opcode = "RDMA_WRITE_Only",
                           f.opcode = "RDMA_READ_Response_First").heap]

\* ---------------------------------------------------------------- actions
Decoded(st, f) ==
    /\ nframes < MaxFrames
    /\ nframes' = nframes + 1
    /\ rdma_segments' = st.tab
    /\ heap' = st.heap
    /\ rdma_write_chunks' = st.chunks
    /\ senddata' = st.senddata
    /\ rpc_log' = st.log
    /\ last_op' = [frame |-> f, tab |-> rdma_segments, heap |-> heap]
    /\ UNCHANGED <<scn, pktt_vars, lib_vars>>

RdmapSend(f) ==
    /\ f.op = "Send"
    /\ Decoded(decode_send(RdmaState, f), f)

RdmapWrite(f) ==
    /\ f.op = "RDMA_Write"
    /\ Decoded(decode_write(RdmaState, f), f)

RdmapReadRequest(f) ==
    /\ f.op = "RDMA_Read_Request"
    /\ Decoded(decode_read_request(RdmaState, f), f)

RdmapReadResponse(f) ==
    /\ f.op = "RDMA_Read_Response"
    /\ Decoded(decode_read_response(RdmaState, f), f)

IbRdma(f) ==
    /\ f.op = "IB"
    /\ Decoded(decode_ib(RdmaState, f), f)

NoFrame == [op |-> "none"]

\* =================================================================== Pktt
\* ----------------------------------------------------------- pcap traces
\* rpc.type of a call and of a reply.
CALL == 0
REPLY == 1

\* The RPC layer of a message: <<>> when there is none.
Rpc(type, xid) == <<[type |-> type, xid |-> xid]>>

\* A pcap record: its time stamp and what its payload decodes to.
\*   udp   one UDP datagram, with one RPC message or none
\*   tcp2  one TCP segment that carries two whole RPC messages
\*   frag  a TCP segment with the first part of an RPC message
\*   last  the TCP segment that ends the message begun by a frag
\*   rdma  an iWARP Send with an RPC-over-RDMA header whose chunk list names
\*         one segment, the handle of which is the number of the record
\*   send  an iWARP Send that is not the last fragment of its message
\*   ipfrag  an IPv4 fragment that is not the last of its datagram
\*   cuthdr  the end of a file that stops within a record header
\*   cutdata  a record header whose data the file does not hold in full
Rec(kind, secs, usecs, rpcs) ==
    [kind |-> kind, secs |-> secs, usecs |-> usecs, rpcs |-> rpcs]

\* The traces read: each a list of pcap files, each file a list of records.
Traces ==
    [single |->
        << << Rec("udp", 1, 10, Rpc(CALL, 1)),
              Rec("tcp2", 2, 20, Rpc(CALL, 2) \o Rpc(REPLY, 1)),
              Rec("udp", 3, 30, Rpc(REPLY, 2)),
              Rec("udp", 4, 40, <<>>) >> >>,
     split |->
        << << Rec("frag", 1, 10, <<>>),
              Rec("last", 2, 20, Rpc(CALL, 1)),
              Rec("udp", 3, 30, Rpc(REPLY, 1)) >> >>,
     inter |->
        << << Rec("udp", 1, 10, Rpc(CALL, 1)),
              Rec("udp", 3, 30, Rpc(REPLY, 1)) >>,
           << Rec("udp", 2, 20, Rpc(CALL, 2)),
              Rec("tcp2", 4, 40, Rpc(REPLY, 2) \o Rpc(CALL, 3)) >> >>,
     serial |->
        << << Rec("udp", 1, 10, Rpc(CALL, 1)),
              Rec("frag", 2, 20, <<>>) >>,
           << Rec("last", 3, 30, Rpc(REPLY, 1)),
              Rec("udp", 4, 40, Rpc(CALL, 2)) >> >>,
     tables |->
        << << Rec("rdma", 1, 10, Rpc(CALL, 1)),
              Rec("ipfrag", 2, 20, <<>>),
              Rec("send", 3, 30, <<>>),
              Rec("frag", 4, 40, <<>>),
              Rec("udp", 5, 50, Rpc(REPLY, 1)) >> >>,
     carry |->
        << << Rec("rdma", 1, 10, Rpc(CALL, 1)),
              Rec("udp", 2, 20, Rpc(CALL, 2)) >>,
           << Rec("udp", 3, 30, Rpc(REPLY, 1)),
              Rec("udp", 4, 40, <<>>) >> >>,
     cuthdr |->
        << << Rec("udp", 1, 10, Rpc(CALL, 1)),
              Rec("tcp2", 2, 20, Rpc(CALL, 2) \o Rpc(REPLY, 1)),
              Rec("cuthdr", 0, 0, <<>>) >> >>,
     cutdata |->
        << << Rec("udp", 1, 10, Rpc(CALL, 1)),
              Rec("udp", 2, 20, Rpc(REPLY, 1)),
              Rec("cutdata", 3, 30, Rpc(CALL, 2)) >> >>]

\* The traces of a file whose last record is not whole.
CutTraces == {"cuthdr", "cutdata"}

\* The traces with records that fill the RDMA segment table, the IPv4
\* fragment table or the iWARP Send table.
TableTraces == {"tables", "carry"}

\* The size of the pcap file header, in the unit in which a record has size 1.
HeaderSize == 1

\* os.stat(self.tfile).st_size
FileSize(file) == HeaderSize + Len(file)

\* ------------------------------------------------------------------ Pkt
\* self.pkt = None
NonePkt == [kind |-> "None"]
\* Pkt(): a packet without any layer
EmptyPkt == [kind |-> "Pkt"]

\* pkt == "rpc": the packet has an RPC layer
HasRpc(pkt) == pkt.kind = "pkt" /\ pkt.rpc # <<>>

\* --------------------------------------------------------- Pktt.__init__
\* The attributes of a Pktt object that reads one file.
NewReader(tfile) ==
    [tfile |-> tfile, offset |-> 0, boffset |-> -1, ioffset |-> 0, index |-> 0,
     frame |-> 0, dframe |-> 0, mindex |-> 0, findex |-> 0, live |-> FALSE,
     eof |-> FALSE, serial |-> FALSE,
     pkt |-> NonePkt, fh |-> FALSE, tcp_stream_map |-> EmptyMap,
     rpc_xid_map |-> EmptyMap, rdma_info |-> {}, ipv4_fragments |-> {},
     senddata |-> {}]

\* Pktt(tfile): tfiles is the number of files of the list given.  For a list
\* of more than one file a Pktt object is created for each.
NewPktt(tfiles) ==
    [pktt_list |-> IF tfiles > 1 THEN [i \in 1..tfiles |-> NewReader(i)] ELSE <<>>,
     pindex |-> 0, pktlist |-> <<>>, match_xid_list |-> <<>>,
     reply_matched |-> FALSE]
    @@ NewReader(IF tfiles > 1 THEN 0 ELSE 1)

\* ------------------------------------------------- decoders (link layer on)
\* The TCP stream of the trace: how many messages of the current segment
\* were delivered, and the bytes of a message that is not whole yet.
NoStream == [off |-> 0, buf |-> <<>>]
TcpStream(r) ==
    IF 1 \in DOMAIN r.tcp_stream_map THEN r.tcp_stream_map[1] ELSE NoStream

\* The call a reply belongs to, as found in the XID map: <<>> or <<index>>.
CallOf(map, rpc) ==
    IF rpc # <<>> /\ rpc[1].type = REPLY /\ rpc[1].xid \in DOMAIN map
    THEN <<map[rpc[1].xid]>> ELSE <<>>

\* The XID map after a message was decoded: a call is entered by its xid.
XidMap(map, rpc, index) ==
    IF rpc # <<>> /\ rpc[1].type = CALL THEN MapPut(map, rpc[1].xid, index)
    ELSE map

\* Record(self, data) and the layers added to self.pkt.
NewPkt(r, recno, rec, rpc, data) ==
    [kind |-> "pkt", tfile |-> r.tfile, recno |-> recno, index |-> r.index,
     frame |-> r.frame, secs |-> rec.secs, usecs |-> rec.usecs, rpc |-> rpc,
     call |-> CallOf(r.rpc_xid_map, rpc), data |-> data]

\* An index that counts two for every packet.
NextIndexTwo(index) == index + 2

\* "self.index += 1"
NextIndex(index) == index + 1

\* The reader after a UDP record was decoded.
decode_udp(r, recno, rec) ==
    [r EXCEPT !.pkt = NewPkt(r, recno, rec, rec.rpcs, <<recno>>),
              !.rpc_xid_map = XidMap(@, rec.rpcs, r.index),
              !.index = NextIndex(@)]

\* The reader after an iWARP Send with an RPC-over-RDMA header was decoded:
\* process_rdma_segments enters the segment of its chunk list by its handle.
decode_rdma(r, recno, rec) ==
    [decode_udp(r, recno, rec) EXCEPT !.rdma_info = @ \cup {recno}]

\* The reader after a fragment of an iWARP Send was decoded: it is kept in
\* RDMAP._senddata, an attribute of the class.  The traces with such records
\* are read by one object, with which the table is kept here.
decode_sendfrag(r, recno, rec) ==
    [decode_udp(r, recno, rec) EXCEPT !.senddata = @ \cup {recno}]

\* The reader after an IPv4 fragment was decoded: it is kept in the
\* fragment table of the object.
decode_ipfrag(r, recno, rec) ==
    [decode_udp(r, recno, rec) EXCEPT !.ipv4_fragments = @ \cup {recno}]

\* The reader after a TCP record was decoded with the stream at s: message
\* rpc with bytes data is delivered, the stream is left at s1, and the file
\* pointer is put back to the start of the record when the segment holds
\* another message.
decode_tcp(r, recno, rec, rpc, data, s1, again) ==
    [r EXCEPT !.pkt = NewPkt(r, recno, rec, rpc, data),
              !.rpc_xid_map = XidMap(@, rpc, r.index),
              !.tcp_stream_map = MapPut(@, 1, s1),
              !.offset = IF again THEN r.boffset ELSE @,
              !.index = NextIndex(@)]

\* The link layer decoder and all it calls.
decode(r, recno, rec) ==
    CASE rec.kind = "udp" -> decode_udp(r, recno, rec)
      [] rec.kind = "rdma" -> decode_rdma(r, recno, rec)
      [] rec.kind = "send" -> decode_sendfrag(r, recno, rec)
      [] rec.kind = "ipfrag" -> decode_ipfrag(r, recno, rec)
      [] rec.kind = "tcp2" ->
            decode_tcp(r, recno, rec, <<rec.rpcs[TcpStream(r).off + 1]>>,
                       <<recno, TcpStream(r).off>>,
                       [TcpStream(r) EXCEPT
                           !.off = IF @ + 1 < Len(rec.rpcs) THEN @ + 1 ELSE 0],
                       TcpStream(r).off + 1 < Len(rec.rpcs))
      [] rec.kind = "frag" ->
            decode_tcp(r, recno, rec, <<>>, <<>>,
                       [TcpStream(r) EXCEPT !.buf = <<recno>>], FALSE)
      [] rec.kind = "last" ->
            decode_tcp(r, recno, rec,
                       IF TcpStream(r).buf # <<>> THEN rec.rpcs ELSE <<>>,
                       TcpStream(r).buf \o <<recno>>,
                       [TcpStream(r) EXCEPT !.buf = <<>>], FALSE)

\* ------------------------------------------------- Pktt.__next__ (one file)
\* A frame count that takes every packet for a new record.
FrameStepAlways(boffset, offset) == 1

\* "if self.boffset != self.offset: self.frame += 1; self.dframe = 1"
FrameStep(boffset, offset) == IF boffset # offset THEN 1 ELSE 0

\* The start of __next__: a new Pkt, the frame count, the packet's offset.
count_frame(r) ==
    [r EXCEPT !.pkt = EmptyPkt,
              !.frame = @ + FrameStep(r.boffset, r.offset),
              !.dframe = FrameStep(r.boffset, r.offset),
              !.boffset = r.offset]

\* Pktt._getfh: the file is opened at the first read.
getfh(r) ==
    IF r.fh THEN r
    ELSE [r EXCEPT !.fh = TRUE, !.offset = HeaderSize, !.ioffset = HeaderSize,
                   !.index = 0]

\* "if len(data) < 16": no record header, or a part of one, is left.
HeaderShort(file, r) ==
    \/ r.offset >= FileSize(file)
    \/ file[r.offset - HeaderSize + 1].kind = "cuthdr"

\* "if self.unpack.size() < record.length_inc": the record has been truncated.
DataShort(file, r) == file[r.offset - HeaderSize + 1].kind = "cutdata"

\* An end of the iteration that counts the record left unread as a packet.
stop_counted(file, r) ==
    [ok |-> FALSE,
     r  |-> [r EXCEPT !.eof = TRUE, !.offset = FileSize(file),
                      !.index = NextIndex(@)]]

\* "self.eof = True; self.offset = self.filesize; raise StopIteration"
stop_iteration(file, r) ==
    [ok |-> FALSE, r |-> [r EXCEPT !.eof = TRUE, !.offset = FileSize(file)]]

\* The record header and data are read at the offset: [ok, r], ok FALSE for
\* StopIteration.
read_record(file, r) ==
    IF HeaderShort(file, r) \/ DataShort(file, r) THEN stop_iteration(file, r)
    ELSE [ok |-> TRUE,
          r  |-> decode([r EXCEPT !.offset = @ + 1],
                        r.offset - HeaderSize + 1,
                        file[r.offset - HeaderSize + 1])]

\* Pktt.__next__ of an object that reads one file.
next_single(fs, r) == read_record(fs[r.tfile], getfh(count_frame(r)))


\* ------------------------------------------------------------ Pktt.rewind
\* A rewind to the first packet that keeps the state of the decoders.
reset_position(r) ==
    [r EXCEPT !.offset = r.ioffset, !.boffset = 0, !.index = 0, !.frame = 0,
              !.eof = FALSE]

\* The single-file branch of rewind up to and with "Clear state".
reset_single(r) ==
    [r EXCEPT !.offset = r.ioffset, !.boffset = 0, !.index = 0, !.frame = 0,
              !.eof = FALSE, !.tcp_stream_map = EmptyMap,
              !.rpc_xid_map = EmptyMap, !.rdma_info = {}]

\* obj.rewind() of an object of pktt_list: rewind(0), which does nothing
\* unless a packet was read.
rewind_obj(r) == IF 0 < r.index THEN reset_single(r) ELSE r

\* "try: next(obj) except StopIteration: pass"
TryNext(n) == n.r

\* "try: next(obj) except StopIteration: obj.mindex = self.index"
NextOrMindex(n, index) == IF n.ok THEN n.r ELSE [n.r EXCEPT !.mindex = index]

\* ------------------------------------------- Pktt.__next__ (list of files)
\* "if obj.pkt is None: next(obj)" for every object of the list.
FirstPackets(fs, list, index) ==
    [i \in 1..Len(list) |->
        IF list[i].pkt = NonePkt
        THEN NextOrMindex(next_single(fs, list[i]), index)
        ELSE list[i]]

\* A choice by the highest record.secs.
Highest(list) ==
    LET live == {i \in 1..Len(list) : ~list[i].eof}
        high == {i \in live : \A j \in live : list[i].pkt.secs >= list[j].pkt.secs}
    IN  IF live = {} THEN 0 ELSE CHOOSE i \in high : \A j \in high : i <= j

\* A choice by the order of the list alone.
FirstLive(list) ==
    LET live == {i \in 1..Len(list) : ~list[i].eof}
    IN  IF live = {} THEN 0 ELSE CHOOSE i \in live : \A j \in live : i <= j

\* The object chosen: the first in list order among those not at the end of
\* their file whose packet has the lowest record.secs; 0 when all are done.
Lowest(list) ==
    LET live == {i \in 1..Len(list) : ~list[i].eof}
        low  == {i \in live : \A j \in live : list[i].pkt.secs <= list[j].pkt.secs}
    IN  IF live = {} THEN 0 ELSE CHOOSE i \in low : \A j \in low : i <= j

\* "Check if objects should be serially processed"
IsSerial(list) ==
    IF \E i \in 1..Len(list) : ~list[i].eof /\ list[i].index > 1 THEN FALSE
    ELSE \E i \in 1..Len(list) : ~list[i].eof /\ list[i].index = 1

\* The end of __next__ once the chosen object has read ahead to the end of
\* its file (list holds it at place k): "Save current state" when it is
\* serial, then the cumulative index is incremented.
after_stop(x, list, k) ==
    IF IsSerial(list)
    THEN [x EXCEPT !.pktt_list = [list EXCEPT ![k].serial = TRUE],
                   !.tcp_stream_map = list[k].tcp_stream_map,
                   !.rpc_xid_map = list[k].rpc_xid_map,
                   !.rdma_info = list[k].rdma_info,
                   !.index = NextIndex(@)]
    ELSE [x EXCEPT !.pktt_list = [list EXCEPT ![k].serial = FALSE],
                   !.index = NextIndex(@)]

\* "try: next(pktt_obj)": n is the outcome of the read ahead.
read_ahead(x, k, n) ==
    IF n.ok
    THEN [x EXCEPT !.pktt_list[k] = n.r, !.index = NextIndex(@)]
    ELSE after_stop(x, [x.pktt_list EXCEPT ![k] = [n.r EXCEPT !.mindex = x.index]], k)

\* "if pktt_obj.dframe: self.frame += 1" and the packet the caller sees, with
\* the cumulative index and frame.
stamp(x, obj) ==
    [x EXCEPT !.frame = @ + obj.dframe,
              !.pkt = [obj.pkt EXCEPT !.index = x.index,
                                      !.frame = x.frame + obj.dframe],
              !.tfile = obj.tfile]

\* From "if pktt_obj.dframe" on, the chosen object being at place k.
yield_from(fs, x, k) ==
    read_ahead(stamp(x, x.pktt_list[k]), k, next_single(fs, x.pktt_list[k]))

\* "if len(self._tcp_stream_map):" the TCP stream map and the XID map saved
\* in x are given to the object obj.
give_tcp(x, obj) ==
    IF DOMAIN x.tcp_stream_map # {}
    THEN [obj EXCEPT !.tcp_stream_map = x.tcp_stream_map,
                     !.rpc_xid_map = x.rpc_xid_map]
    ELSE obj

\* "if len(self._rdma_info):" the RDMA segments saved in x are given to obj.
give_rdma(x, obj) ==
    IF x.rdma_info # {} THEN [obj EXCEPT !.rdma_info = x.rdma_info] ELSE obj

\* What stays saved in x once it was given away.
given(x) ==
    IF DOMAIN x.tcp_stream_map # {}
    THEN [x EXCEPT !.tcp_stream_map = EmptyMap, !.rpc_xid_map = EmptyMap,
                   !.rdma_info = {}]
    ELSE [x EXCEPT !.rdma_info = {}]

\* "Have all state transferred to next packet object": the chosen object is
\* rewound, given the saved state, and its first packet read again.
transfer(fs, x, k) ==
    [given(x) EXCEPT !.pktt_list[k] =
        TryNext(next_single(fs,
            give_rdma(x, give_tcp(x, rewind_obj(x.pktt_list[k])))))]

\* __next__ after the first packets were read and the object k was chosen.
next_chosen(fs, x, k) ==
    IF k = 0 THEN [ok |-> FALSE, r |-> x]
    ELSE IF DOMAIN x.tcp_stream_map # {} \/ x.rdma_info # {}
    THEN [ok |-> TRUE, r |-> yield_from(fs, transfer(fs, x, k), k)]
    ELSE [ok |-> TRUE, r |-> yield_from(fs, x, k)]

\* __next__ with the first packets read.
next_first(fs, x) == next_chosen(fs, x, Lowest(x.pktt_list))

\* Pktt.__next__ of an object made for a list of files: [ok, r]
next_multi(fs, x) ==
    next_first(fs, [x EXCEPT !.pkt = EmptyPkt,
                             !.pktt_list = FirstPackets(fs, @, x.index)])

\* Pktt.__next__: [ok, r], ok FALSE for StopIteration.
next(fs, x) ==
    IF Len(x.pktt_list) > 1 THEN next_multi(fs, x) ELSE next_single(fs, x)

\* ------------------------------------------------------------ Pktt.rewind
RECURSIVE replay(_, _, _)
RECURSIVE replay_step(_, _, _)
\* "try: pkt = next(self) except: break": n is the outcome of next(self).
replay_step(fs, n, index) == IF n.ok THEN replay(fs, n.r, index) ELSE n.r

\* "while self.index < index:"
replay(fs, x, index) ==
    IF x.index < index THEN replay_step(fs, next(fs, x), index) ELSE x

RECURSIVE rewind_list(_, _, _, _)
\* "for obj in self.pktt_list:" of rewind, from the object at place k on.
rewind_list(fs, x, index, k) ==
    IF k > Len(x.pktt_list) THEN x
    ELSE IF ~x.pktt_list[k].eof \/ index <= x.pktt_list[k].mindex
    THEN rewind_list(fs,
             [x EXCEPT !.pktt_list[k] = TryNext(next_single(fs, rewind_obj(@)))],
             index, k + 1)
    ELSE IF x.pktt_list[k].serial /\ index > x.pktt_list[k].mindex
    THEN rewind_list(fs, [x EXCEPT !.index = x.pktt_list[k].mindex + 1],
                     index, k + 1)
    ELSE rewind_list(fs, x, index, k + 1)

\* A rewind that sets the reader's packet index in place of the cursor.
rewind_index(x, index) == [x EXCEPT !.index = index]

\* "if self.pktlist is not None: self.pindex = index; return True"
rewind_pktlist(x, index) == [x EXCEPT !.pindex = index]

\* Pktt.rewind(index): the object after the call.
rewind(fs, x, index) ==
    IF x.pktlist # <<>> THEN rewind_pktlist(x, index)
    ELSE IF index >= 0 /\ index < x.index
    THEN IF Len(x.pktt_list) > 1
         THEN replay(fs, rewind_list(fs, [x EXCEPT !.index = 0, !.frame = 0],
                                     index, 1), index)
         ELSE replay(fs, reset_single(x), index)
    ELSE x

\* -------------------------------------------------------- Pktt.get_index
get_index(x) == IF x.pktlist = <<>> THEN x.index ELSE x.pindex

\* ------------------------------------------------------ Pktt.set_pktlist
\* pktlist is <<>> (None) or <<list>>.
set_pktlist(x, pktlist) == [x EXCEPT !.pindex = 0, !.pktlist = pktlist]

\* ------------------------------------------------------------- Pktt.match
\* The match expressions used; the last names no packet layer.
Exprs == {"rpc.type == 0", "rpc.xid == 2", "rpc.xid == 9", "nolayer == 1"}

\* _convert_match gives the expression to a wrapper function: it does so
\* when the expression names a packet layer.
Wrapped(expr) == expr # "nolayer == 1"

\* Evaluating the expression on the packet raises an error: the name is not
\* defined, or the packet does not have the layer.
Raises(expr, pkt) == ~Wrapped(expr) \/ ~HasRpc(pkt)

\* The value of the comparison on a packet that has the layer.
Compare(expr, pkt) ==
    CASE expr = "rpc.type == 0" -> pkt.rpc[1].type = 0
      [] expr = "rpc.xid == 2" -> pkt.rpc[1].xid = 2
      [] expr = "rpc.xid == 9" -> pkt.rpc[1].xid = 9

\* A wrapper that takes an error for a match.
match_pkt_truthy(expr, pkt) == Raises(expr, pkt) \/ Compare(expr, pkt)

\* Pktt.match_pkt: "ret = False; try: ret = eval(expr) except: pass"
match_pkt(expr, pkt) ==
    IF Raises(expr, pkt) THEN FALSE ELSE Compare(expr, pkt)

\* The expression evaluated on the packet alone; an error counts as no match.
Eval(expr, pkt) == ~Raises(expr, pkt) /\ Compare(expr, pkt)

\* list.remove(xid): the list without the first xid in it.
Remove(list, xid) ==
    LET k == CHOOSE i \in 1..Len(list) :
                 list[i] = xid /\ \A j \in 1..(i - 1) : list[j] # xid
    IN  SubSeq(list, 1, k - 1) \o SubSeq(list, k + 1, Len(list))

\* A limit that lets the packet at maxindex through.
HitBeyond(maxindex, pkt) == maxindex # 0 /\ pkt.index > maxindex

\* "if maxindex and pkt.record.index >= maxindex: break"
HitMaxindex(maxindex, pkt) == maxindex # 0 /\ pkt.index >= maxindex

\* "reply and pkt == 'rpc' and pkt.rpc.type == 1 and
\*  pkt.rpc.xid in self._match_xid_list"
IsMatchedReply(x, reply, pkt) ==
    /\ reply
    /\ HasRpc(pkt)
    /\ pkt.rpc[1].type = REPLY
    /\ \E i \in 1..Len(x.match_xid_list) : x.match_xid_list[i] = pkt.rpc[1].xid

\* An always-true test in the place of "if eval(pdata):".
MatchesAny(expr, pkt) == TRUE

\* "try: ... if eval(pdata): ... except Exception: pass": the compiled
\* predicate is the wrapper call, or the expression as it is.
Matches(expr, pkt) ==
    IF Wrapped(expr) THEN match_pkt(expr, pkt)
    ELSE IF Raises(expr, pkt) THEN FALSE ELSE Compare(expr, pkt)

\* The try block of the search loop on packet pkt: [done, x, ret]
try_packet(x, expr, reply, pkt) ==
    IF IsMatchedReply(x, reply, pkt)
    THEN [done |-> TRUE, ret |-> pkt,
          x |-> [x EXCEPT !.match_xid_list = Remove(@, pkt.rpc[1].xid),
                          !.reply_matched = TRUE]]
    ELSE IF Matches(expr, pkt)
    THEN [done |-> TRUE, ret |-> pkt,
          x |-> IF reply /\ HasRpc(pkt) /\ pkt.rpc[1].type = CALL
                THEN [x EXCEPT !.match_xid_list = Append(@, pkt.rpc[1].xid)]
                ELSE x]
    ELSE [done |-> FALSE, ret |-> NonePkt, x |-> x]

RECURSIVE search_live(_, _, _, _, _)
RECURSIVE live_tried(_, _, _, _, _)
RECURSIVE live_turn(_, _, _, _, _)

\* After the try block: return the packet or go on with the next one.
live_tried(fs, t, expr, maxindex, reply) ==
    IF t.done THEN t ELSE search_live(fs, t.x, expr, maxindex, reply)

\* One turn of "for pkt in pkt_list" on the trace: n is next(self).
live_turn(fs, n, expr, maxindex, reply) ==
    IF ~n.ok \/ HitMaxindex(maxindex, n.r.pkt)
    THEN [done |-> FALSE, ret |-> NonePkt, x |-> n.r]
    ELSE live_tried(fs, try_packet(n.r, expr, reply, n.r.pkt),
                    expr, maxindex, reply)

\* "for pkt in pkt_list" with pkt_list = self: [done, x, ret]
search_live(fs, x, expr, maxindex, reply) ==
    live_turn(fs, next(fs, x), expr, maxindex, reply)

RECURSIVE search_list(_, _, _, _, _)
RECURSIVE list_tried(_, _, _, _, _)

\* After the try block on the packet at place k of the list.
list_tried(t, k, expr, maxindex, reply) ==
    IF t.done THEN t ELSE search_list(t.x, k + 1, expr, maxindex, reply)

\* "for pkt in pkt_list" with pkt_list = self.pktlist, from place k on.
search_list(x, k, expr, maxindex, reply) ==
    IF k > Len(x.pktlist[1]) \/ HitMaxindex(maxindex, x.pktlist[1][k])
    THEN [done |-> FALSE, ret |-> NonePkt, x |-> x]
    ELSE IF x.pktlist[1][k].index < x.pindex
    THEN search_list(x, k + 1, expr, maxindex, reply)
    ELSE list_tried(try_packet([x EXCEPT !.pindex = x.pktlist[1][k].index + 1,
                                         !.pkt = x.pktlist[1][k]],
                               expr, reply, x.pktlist[1][k]),
                    k, expr, maxindex, reply)

\* The end of match: the packet found, or the rewind and None: [x, ret]
match_end(fs, t, save_index, rw) ==
    IF t.done THEN [x |-> t.x, ret |-> t.ret]
    ELSE [x   |-> [(IF rw THEN rewind(fs, t.x, save_index) ELSE t.x)
                      EXCEPT !.pkt = NonePkt],
          ret |-> NonePkt]

\* Pktt.match(expr, maxindex, rewind, reply): [x, ret]; maxindex 0 is None.
match(fs, x, expr, maxindex, rw, reply) ==
    match_end(fs,
        IF x.pktlist = <<>>
        THEN search_live(fs, [x EXCEPT !.reply_matched = FALSE],
                         expr, maxindex, reply)
        ELSE search_list([x EXCEPT !.reply_matched = FALSE], 1,
                         expr, maxindex, reply),
        get_index(x), rw)

\* ------------------------------------------------------------ first pass
RECURSIVE ReadAll(_, _, _)
\* The packets a Pktt object yields when iterated to the end.
ReadAll(fs, n, pkts) ==
    IF n.ok THEN ReadAll(fs, next(fs, n.r), Append(pkts, n.r.pkt)) ELSE pkts

\* The packets of each trace as a new Pktt object yields them.
FirstPass ==
    [t \in DOMAIN Traces |->
        ReadAll(Traces[t], next(Traces[t], NewPktt(Len(Traces[t]))), <<>>)]

\* ---------------------------------------------------- actions: trace reader
\* What is known of the packets handed out by next(self) in a row:
\*   kind  "start" from a new object, "rewind" from a rewind(base) that
\*         succeeded, "lost" after a match, which reads on its own
\*   got   the packets yielded since, eof whether StopIteration was raised
Fresh == [kind |-> "start", base |-> 0, got |-> <<>>, eof |-> FALSE]
Lost == [kind |-> "lost", base |-> 0, got |-> <<>>, eof |-> FALSE]

\* The last call made on the object and what it returned.
\* before is get_index() as match was called.  Of a match that returned a
\* packet the expression is kept, of one that returned None whether it was
\* to rewind.
Called(op, expr, rw, before, ret) ==
    [op |-> op, expr |-> expr, rw |-> rw, before |-> before, ret |-> ret]
NoCall == Called("none", "", FALSE, 0, NonePkt)

\* The object, the row of packets and the call after an operation.
PkttDone(x, s, o) ==
    /\ pktt' = x
    /\ since' = s
    /\ out' = o

\* next(self) with outcome n.
next_done(n) ==
    PkttDone(n.r,
             IF n.ok THEN [since EXCEPT !.got = Append(@, n.r.pkt)]
             ELSE [since EXCEPT !.eof = TRUE],
             Called("next", "", FALSE, 0, NonePkt))

PkttNext ==
    /\ next_done(next(Traces[trace], pktt))
    /\ UNCHANGED <<trace, disk, rdma_vars, lib_vars>>

PkttRewind(index) ==
    /\ PkttDone(rewind(Traces[trace], pktt, index),
                IF pktt.pktlist = <<>> /\ index < pktt.index
                THEN [kind |-> "rewind", base |-> index, got |-> <<>>,
                      eof |-> FALSE]
                ELSE since,
                Called("rewind", "", FALSE, 0, NonePkt))
    /\ UNCHANGED <<trace, disk, rdma_vars, lib_vars>>

\* match(expr, maxindex, rewind, reply) with outcome m.
match_done(m, expr, rw) ==
    /\ Len(m.x.match_xid_list) <= MaxXids
    /\ PkttDone(m.x,
                IF pktt.pktlist # <<>> THEN since ELSE Lost,
                IF m.ret # NonePkt
                THEN Called("match", expr, FALSE, get_index(pktt), m.ret)
                ELSE Called("match", "", rw, get_index(pktt), NonePkt))

\* The maxindex arguments given to match: None (0) and an index.
Maxindexes == {0, 2}

PkttMatch(expr, maxindex, rw, reply) ==
    /\ match_done(match(Traces[trace], pktt, expr, maxindex, rw, reply),
                  expr, rw)
    /\ UNCHANGED <<trace, disk, rdma_vars, lib_vars>>

\* The list given to set_pktlist: None, or the RPC packets of the trace,
\* collected by reading it to the end.
PktList(buffered) ==
    IF buffered THEN <<SelectSeq(FirstPass[trace], HasRpc)>> ELSE <<>>

PkttSetPktlist(buffered) ==
    /\ PktList(buffered) # pktt.pktlist
    /\ buffered => pktt.index = Len(FirstPass[trace])
    /\ PkttDone(set_pktlist(pktt, PktList(buffered)), since,
                Called("set_pktlist", "", FALSE, 0, NonePkt))
    /\ UNCHANGED <<trace, disk, rdma_vars, lib_vars>>

\* ========================================================== specifications
\* The RDMA engine fed the frames of a scenario.
Init ==
    /\ scn \in DOMAIN Scenarios
    /\ nframes = 0
    /\ rdma_segments = <<>>
    /\ heap = <<>>
    /\ rdma_write_chunks = <<>>
    /\ senddata = EmptyMap
    /\ rpc_log = <<>>
    /\ last_op = [frame |-> NoFrame, tab |-> <<>>, heap |-> <<>>]
    /\ LibIdle
    /\ trace = "single"
    /\ pktt = NewPktt(Len(Traces[trace]))
    /\ since = Fresh
    /\ out = NoCall
    /\ disk = <<>>

Next ==
    \/ \E f \in Scenarios[scn] : RdmapSend(f)
    \/ \E f \in Scenarios[scn] : RdmapWrite(f)
    \/ \E f \in Scenarios[scn] : RdmapReadRequest(f)
    \/ \E f \in Scenarios[scn] : RdmapReadResponse(f)
    \/ \E f \in Scenarios[scn] : IbRdma(f)

vars == <<rdma_vars, pktt_vars, lib_vars>>

Spec == Init /\ [][Next]_vars

\* A Pktt object made for a trace and the calls of its user.
InitPktt ==
    /\ trace \in DOMAIN Traces \ (TableTraces \cup CutTraces)
    /\ pktt = NewPktt(Len(Traces[trace]))
    /\ since = Fresh
    /\ out = NoCall
    /\ disk = <<>>
    /\ scn = "reads2"
    /\ nframes = 0
    /\ rdma_segments = <<>>
    /\ heap = <<>>
    /\ rdma_write_chunks = <<>>
    /\ senddata = EmptyMap
    /\ rpc_log = <<>>
    /\ last_op = [frame |-> NoFrame, tab |-> <<>>, heap |-> <<>>]
    /\ LibIdle

NextPktt ==
    \/ PkttNext
    \/ \E index \in 0..MaxIndex : PkttRewind(index)
    \/ \E expr \in Exprs, maxindex \in Maxindexes, rw \in BOOLEAN, reply \in BOOLEAN :
           PkttMatch(expr, maxindex, rw, reply)
    \/ \E buffered \in BOOLEAN : PkttSetPktlist(buffered)

SpecPktt == InitPktt /\ [][NextPktt]_vars

\* ------------------------------------------------- Pktt.clear_xid_list
clear_xid_list(x) == [x EXCEPT !.match_xid_list = <<>>]

\* ------------------------------------------ actions: matching with replies
\* A user that matches the calls and replies of one trace file, reading the
\* file (no packet list) with reply=True and no maxindex in every match.
reply_done(m) ==
    /\ Len(m.x.match_xid_list) <= MaxAwait
    /\ PkttDone(m.x, Lost, Called("match", "", FALSE, 0, m.ret))

ReplyMatch(expr, rw) ==
    /\ reply_done(match(Traces[trace], pktt, expr, 0, rw, TRUE))
    /\ UNCHANGED <<trace, disk, rdma_vars, lib_vars>>

ReplyRewind(index) ==
    /\ PkttDone(rewind(Traces[trace], pktt, index), Lost,
                Called("rewind", "", FALSE, 0, NonePkt))
    /\ UNCHANGED <<trace, disk, rdma_vars, lib_vars>>

ClearXidList ==
    /\ pktt.match_xid_list # <<>>
    /\ PkttDone(clear_xid_list(pktt), Lost,
                Called("clear_xid_list", "", FALSE, 0, NonePkt))
    /\ UNCHANGED <<trace, disk, rdma_vars, lib_vars>>

InitReply ==
    /\ trace \in {"single", "split"}
    /\ pktt = NewPktt(Len(Traces[trace]))
    /\ since = Lost
    /\ out = NoCall
    /\ disk = <<>>
    /\ scn = "reads2"
    /\ nframes = 0
    /\ rdma_segments = <<>>
    /\ heap = <<>>
    /\ rdma_write_chunks = <<>>
    /\ senddata = EmptyMap
    /\ rpc_log = <<>>
    /\ last_op = [frame |-> NoFrame, tab |-> <<>>, heap |-> <<>>]
    /\ LibIdle

NextReply ==
    \/ \E expr \in Exprs, rw \in BOOLEAN : ReplyMatch(expr, rw)
    \/ \E index \in 0..MaxIndex : ReplyRewind(index)
    \/ ClearXidList

SpecReply == InitReply /\ [][NextReply]_vars

\* -------------------------------------------------------- Pktt.__getitem__
RECURSIVE getitem_read(_, _, _, _)
RECURSIVE getitem_step(_, _, _, _)
\* "try: pkt = next(self) except: break": n is the outcome of next(self).
getitem_step(fs, n, index, pkt) ==
    IF n.ok THEN getitem_read(fs, n.r, index, n.r.pkt)
    ELSE [x |-> n.r, ret |-> pkt]

\* "while self.index <= index:", pkt being the packet read last (or None).
getitem_read(fs, x, index, pkt) ==
    IF x.index <= index THEN getitem_step(fs, next(fs, x), index, pkt)
    ELSE [x |-> x, ret |-> pkt]

\* "if index == self.pkt.record.index" with the errors of a missing packet
\* or record passed over.
InMemory(x, index) == x.pkt.kind = "pkt" /\ x.pkt.index = index

\* Pktt.__getitem__(index): [x, ret], ret None for IndexError.
getitem(fs, x, index) ==
    IF index < 0 THEN [x |-> x, ret |-> NonePkt]
    ELSE IF InMemory(x, index) THEN [x |-> x, ret |-> x.pkt]
    ELSE getitem_read(fs,
                      IF index < x.index THEN rewind(fs, x, index) ELSE x,
                      index, NonePkt)

\* ------------------------------------------- actions: packets by their index
\* x[index] with outcome g; the call is kept with the index asked for in the
\* place of get_index().
getitem_done(g, index) ==
    PkttDone(g.x, Lost, Called("getitem", "", FALSE, index, g.ret))

PkttGetItem(index) ==
    /\ getitem_done(getitem(Traces[trace], pktt, index), index)
    /\ UNCHANGED <<trace, disk, rdma_vars, lib_vars>>

ItemNext ==
    /\ PkttDone(next(Traces[trace], pktt).r, Lost,
                Called("next", "", FALSE, 0, NonePkt))
    /\ UNCHANGED <<trace, disk, rdma_vars, lib_vars>>

InitItem ==
    /\ trace \in DOMAIN Traces \ (TableTraces \cup CutTraces)
    /\ pktt = NewPktt(Len(Traces[trace]))
    /\ since = Lost
    /\ out = NoCall
    /\ disk = <<>>
    /\ scn = "reads2"
    /\ nframes = 0
    /\ rdma_segments = <<>>
    /\ heap = <<>>
    /\ rdma_write_chunks = <<>>
    /\ senddata = EmptyMap
    /\ rpc_log = <<>>
    /\ last_op = [frame |-> NoFrame, tab |-> <<>>, heap |-> <<>>]
    /\ LibIdle

NextItem ==
    \/ \E index \in -1..(MaxIndex + 1) : PkttGetItem(index)
    \/ ItemNext

SpecItem == InitItem /\ [][NextItem]_vars

\* ------------------------------------------ actions: the decoders' tables
\* The object after n calls of next(self) on x.
RECURSIVE ReadTo(_, _, _)
ReadTo(fs, x, n) == IF n = 0 THEN x ELSE ReadTo(fs, next(fs, x).r, n - 1)

\* The object of every trace as a new object finds it before packet i.
FirstState ==
    [t \in DOMAIN Traces |->
        [i \in 0..MaxIndex |-> ReadTo(Traces[t], NewPktt(Len(Traces[t])), i)]]

InitTables ==
    /\ trace \in TableTraces \cup CutTraces \cup {"single", "split", "serial"}
    /\ pktt = NewPktt(Len(Traces[trace]))
    /\ since = Fresh
    /\ out = NoCall
    /\ disk = <<>>
    /\ scn = "reads2"
    /\ nframes = 0
    /\ rdma_segments = <<>>
    /\ heap = <<>>
    /\ rdma_write_chunks = <<>>
    /\ senddata = EmptyMap
    /\ rpc_log = <<>>
    /\ last_op = [frame |-> NoFrame, tab |-> <<>>, heap |-> <<>>]
    /\ LibIdle

NextTables ==
    \/ PkttNext
    \/ \E index \in 0..MaxIndex : PkttRewind(index)

SpecTables == InitTables /\ [][NextTables]_vars

\* ------------------------------------------------- Pktt._read (live=True)
\* The records that tcpdump -C can write to the files of its series: a file
\* is closed with one record or with two.
Series ==
    << << Rec("udp", 1, 10, Rpc(CALL, 1)),
          Rec("frag", 2, 20, <<>>) >>,
       << Rec("last", 3, 30, Rpc(REPLY, 1)),
          Rec("udp", 4, 40, Rpc(CALL, 2)) >>,
       << Rec("udp", 5, 50, Rpc(REPLY, 2)),
          Rec("udp", 6, 60, <<>>) >> >>

\* The files as they are when disk[i] records of file i are written.
OnDisk(d) == [i \in 1..Len(d) |-> SubSeq(Series[i], 1, d[i])]

\* What a call of next(self) comes to when a file is read as it is written:
\* a packet, one more turn of the loop of _read after time.sleep(1), or the
\* error raised by a call in _read.
Slept == [kind |-> "sleep"]
AttributeError == [kind |-> "AttributeError"]

\* Pktt(tfile, live=True)
NewLive == [NewPktt(1) EXCEPT !.live = TRUE]

\* "self.__del__(); self.__init__(tracefile, live=self.live); self.bfile =
\* basefile; self.findex = findex": every attribute is set as in a new
\* object, the file is the next of the series.
reinit(r) == [NewLive EXCEPT !.tfile = r.tfile + 1, !.findex = r.findex + 1]

\* Pktt.seek(offset): the position of self.fh is asked for first, which
\* raises AttributeError when no file is open.
seek(r, offset) ==
    IF r.fh THEN [res |-> Slept, r |-> [r EXCEPT !.offset = offset]]
    ELSE [res |-> AttributeError, r |-> r]

\* "if self.live and ldata != count:" up to time.sleep(1), fs being the files
\* that exist.
short_read(fs, r) ==
    IF r.tfile + 1 <= Len(fs) THEN seek(reinit(r), reinit(r).offset)
    ELSE seek(r, r.offset)

\* One turn of the loop of _read and, when the record is there, the rest of
\* __next__.
read_live(fs, r) ==
    IF r.offset >= FileSize(fs[r.tfile]) THEN short_read(fs, r)
    ELSE [res |-> read_record(fs[r.tfile], r).r.pkt,
          r   |-> read_record(fs[r.tfile], r).r]

\* Pktt.__next__ of an object made with live=True, up to the first sleep.
next_live(fs, r) == read_live(fs, getfh(count_frame(r)))

\* ---------------------------------------------- actions: a live capture
\* The call of next(self) has come to n.
live_done(n) ==
    PkttDone(n.r,
             IF n.res.kind = "pkt" THEN [since EXCEPT !.got = Append(@, n.res)]
             ELSE since,
             Called("next", "", FALSE, 0, n.res))

\* next(self) is called.
LiveNext ==
    /\ out.ret # Slept
    /\ live_done(next_live(OnDisk(disk), pktt))
    /\ UNCHANGED <<trace, disk, rdma_vars, lib_vars>>

\* The call of next(self) wakes up from time.sleep(1) and reads again.
LiveRetry ==
    /\ out.ret = Slept
    /\ live_done(read_live(OnDisk(disk), pktt))
    /\ UNCHANGED <<trace, disk, rdma_vars, lib_vars>>

\* tcpdump writes the next record to the file it has open.
Capture ==
    /\ disk[Len(disk)] < Len(Series[Len(disk)])
    /\ disk' = [disk EXCEPT ![Len(disk)] = @ + 1]
    /\ UNCHANGED <<trace, pktt, since, out, rdma_vars, lib_vars>>

\* tcpdump -C closes the file it has open, which holds a record at least,
\* and starts the next of the series.
Rotate ==
    /\ Len(disk) < Len(Series)
    /\ disk[Len(disk)] >= 1
    /\ disk' = Append(disk, 0)
    /\ UNCHANGED <<trace, pktt, since, out, rdma_vars, lib_vars>>

InitLive ==
    /\ trace = "serial"
    /\ pktt = NewLive
    /\ since = Fresh
    /\ out = NoCall
    /\ disk = <<0>>
    /\ scn = "reads2"
    /\ nframes = 0
    /\ rdma_segments = <<>>
    /\ heap = <<>>
    /\ rdma_write_chunks = <<>>
    /\ senddata = EmptyMap
    /\ rpc_log = <<>>
    /\ last_op = [frame |-> NoFrame, tab |-> <<>>, heap |-> <<>>]
    /\ LibIdle

NextLive ==
    \/ LiveNext
    \/ LiveRetry
    \/ Capture
    \/ Rotate

SpecLive == InitLive /\ [][NextLive]_vars

\* ================================================================ packet.pkt
\* Strings are sequences of characters; a value handed to a comparison is a
\* record that tells its python type: [t |-> "str", s |-> <<"i", "p">>],
\* [t |-> "pkt", p |-> place], [t |-> "int", i |-> 0], [t |-> "none"].
MaxPkts == 2
MaxLayers == 3

UpperCase == <<"A", "B", "C", "D", "E", "F", "G", "H", "I", "J", "K", "L", "M",
               "N", "O", "P", "Q", "R", "S", "T", "U", "V", "W", "X", "Y", "Z">>
LowerCase == <<"a", "b", "c", "d", "e", "f", "g", "h", "i", "j", "k", "l", "m",
               "n", "o", "p", "q", "r", "s", "t", "u", "v", "w", "x", "y", "z">>

\* str.lower()
lower(s) ==
    [n \in 1..Len(s) |->
        IF \E k \in 1..26 : UpperCase[k] = s[n]
        THEN LowerCase[CHOOSE k \in 1..26 : UpperCase[k] = s[n]]
        ELSE s[n]]

\* Layer names the decoders attach, and the name of the first layer.
RecordName == <<"r", "e", "c", "o", "r", "d">>
LayerNames == {<<"i", "p">>, <<"n", "f", "s">>}

\* A name every packet has as an attribute though it is no layer.
LayersAttr == <<"_", "l", "a", "y", "e", "r", "s">>

\* None
PyNone == [t |-> "none"]

\* isinstance(other, str)
IsStr(other) == other.t = "str"

\* Pkt.__init__: self._layers = ["record"]
PktObj == [layers |-> <<RecordName>>, dict |-> EmptyMap]

\* Pkt.add_layer: setattr(self, name, layer); self._layers.append(name)
add_layer(self, name, layer) ==
    [self EXCEPT !.dict = MapPut(@, name, [t |-> "layer", v |-> layer]),
                 !.layers = Append(@, name)]

\* Pkt.get_layers: tuple(self._layers)
get_layers(self) == self.layers

\* getattr(self, name, None): the instance's attributes, then those found in
\* the usual places (_layers among them); BaseObj.__getattr__ gives None for
\* the names of _attrlist and raises AttributeError for the others, which
\* getattr turns into the default.
getattr_none(self, name) ==
    IF name \in DOMAIN self.dict THEN self.dict[name]
    ELSE IF name = LayersAttr THEN [t |-> "list", l |-> self.layers]
    ELSE PyNone

\* Pkt.__eq__
pkt_eq(self, other) ==
    IF IsStr(other) THEN getattr_none(self, lower(other.s)) # PyNone
    ELSE FALSE

\* Pkt.__ne__
pkt_ne(self, other) == ~pkt_eq(self, other)

\* The values a packet is compared with.
Strings ==
    {[t |-> "str", s |-> s] :
        s \in {<<"i", "p">>, <<"I", "P">>, <<"n", "f", "s">>, <<"N", "f", "S">>,
               <<"t", "c", "p">>, RecordName, LayersAttr}}
Others ==
    Strings \cup {[t |-> "pkt", p |-> p] : p \in 1..MaxPkts}
            \cup {[t |-> "int", i |-> 0], PyNone}

\* ------------------------------------------------------------------ actions
\* Pkt()
PktInit ==
    /\ Len(packets) < MaxPkts
    /\ packets' = Append(packets, PktObj)
    /\ call' = [op |-> "init", self |-> Len(packets) + 1]
    /\ UNCHANGED <<rdma_vars, pktt_vars>>

\* Record(pktt, data): the record header attaches itself as pkt.record.
PktRecord(p) ==
    /\ p \in 1..Len(packets)
    /\ packets' = [packets EXCEPT
                      ![p].dict = MapPut(@, RecordName, [t |-> "layer", v |-> 0])]
    /\ call' = [op |-> "record", self |-> p]
    /\ UNCHANGED <<rdma_vars, pktt_vars>>

\* pkt.add_layer(name, layer)
PktAddLayer(p, name, layer) ==
    /\ p \in 1..Len(packets)
    /\ Len(packets[p].layers) < MaxLayers
    /\ packets' = [packets EXCEPT ![p] = add_layer(@, name, layer)]
    /\ call' = [op |-> "add_layer", self |-> p, name |-> name, layer |-> layer,
                before |-> packets[p].layers]
    /\ UNCHANGED <<rdma_vars, pktt_vars>>

\* pkt == other
PktEq(p, other) ==
    /\ p \in 1..Len(packets)
    /\ call' = [op |-> "eq", self |-> p, other |-> other,
                ret |-> pkt_eq(packets[p], other)]
    /\ UNCHANGED <<packets, rdma_vars, pktt_vars>>

\* pkt != other
PktNe(p, other) ==
    /\ p \in 1..Len(packets)
    /\ call' = [op |-> "ne", self |-> p, other |-> other,
                ret |-> pkt_ne(packets[p], other)]
    /\ UNCHANGED <<packets, rdma_vars, pktt_vars>>

\* pkt.get_layers()
PktGetLayers(p) ==
    /\ p \in 1..Len(packets)
    /\ call' = [op |-> "get_layers", self |-> p, ret |-> get_layers(packets[p])]
    /\ UNCHANGED <<packets, rdma_vars, pktt_vars>>

InitPkt ==
    /\ packets = <<>>
    /\ call = [op |-> "none"]
    /\ trace = "single"
    /\ pktt = NewPktt(Len(Traces[trace]))
    /\ since = Fresh
    /\ out = NoCall
    /\ disk = <<>>
    /\ scn = "reads2"
    /\ nframes = 0
    /\ rdma_segments = <<>>
    /\ heap = <<>>
    /\ rdma_write_chunks = <<>>
    /\ senddata = EmptyMap
    /\ rpc_log = <<>>
    /\ last_op = [frame |-> NoFrame, tab |-> <<>>, heap |-> <<>>]

NextPkt ==
    \/ PktInit
    \/ \E p \in 1..MaxPkts : PktRecord(p)
    \/ \E p \in 1..MaxPkts, name \in LayerNames, layer \in {1} :
          PktAddLayer(p, name, layer)
    \/ \E p \in 1..MaxPkts, other \in Others : PktEq(p, other)
    \/ \E p \in 1..MaxPkts, other \in Others : PktNe(p, other)
    \/ \E p \in 1..MaxPkts : PktGetLayers(p)

SpecPkt == InitPkt /\ [][NextPkt]_vars

\* ============================================== packet.pktt: match expressions
\* An expression is the tree ast.parse gives: [k |-> "Name", id], [k |->
\* "BinOp", op, left, right], [k |-> "UnaryOp", op, operand], [k |-> "BoolOp",
\* op, values], [k |-> "Compare", left, ops, comparators]; operators are named
\* by their ast class.  Text is a sequence of tokens.
Name(id) == [k |-> "Name", id |-> id]
BinOp(op, left, right) == [k |-> "BinOp", op |-> op, left |-> left, right |-> right]
UnaryOp(op, operand) == [k |-> "UnaryOp", op |-> op, operand |-> operand]
BoolOp(op, values) == [k |-> "BoolOp", op |-> op, values |-> values]
CompareOp(left, ops, comparators) ==
    [k |-> "Compare", left |-> left, ops |-> ops, comparators |-> comparators]
\* ast.Call(self.<wrapper>, [ast.Constant(text)], [])
WrapperCall(text) == [k |-> "Call", arg |-> text]

NameTok(id) == [k |-> "name", v |-> id]
OpTok(v) == [k |-> "op", v |-> v]
CallTok(text) == [k |-> "call", arg |-> text]

\* oplogic_d, binop_d, bool_d, unary_d
op_text ==
    [Eq |-> "==", Sub |-> "-", Mult |-> "*", Pow |-> "**",
     And |-> "and", Or |-> "or", Not |-> "not", USub |-> "-"]

\* precedence_d
precedence_d ==
    [Pow |-> 80, USub |-> 70, Mult |-> 60, Sub |-> 50, Not |-> 14,
     And |-> 12, Or |-> 10]

get_precedence(op) == precedence_d[op]

\* "(%s)" % text
Parens(text) == <<OpTok("(")>> \o text \o <<OpTok(")")>>

RECURSIVE JoinToks(_, _)
\* sep.join(list)
JoinToks(sep, list) ==
    IF list = <<>> THEN <<>>
    ELSE IF Len(list) = 1 THEN list[1]
    ELSE list[1] \o sep \o JoinToks(sep, Tail(list))

\* The LHS of a binary operation gets parentheses.
LhsParens(tree) ==
    /\ tree.left.k = "BinOp"
    /\ \/ tree.op = "Pow" /\ tree.op = tree.left.op
       \/ get_precedence(tree.left.op) < get_precedence(tree.op)

\* The RHS of a binary operation gets parentheses.
RhsParens(tree) ==
    /\ tree.right.k = "BinOp"
    /\ get_precedence(tree.right.op) < get_precedence(tree.op)

\* The operand of a unary operation gets parentheses.
OperandParens(tree) ==
    /\ tree.operand.k \in {"BinOp", "BoolOp"}
    /\ get_precedence(tree.operand.op) < get_precedence(tree.op)

RECURSIVE unparse(_)
unparse(tree) ==
    IF tree.k = "Name" THEN <<NameTok(tree.id)>>
    ELSE IF tree.k = "Call" THEN <<CallTok(tree.arg)>>
    ELSE IF tree.k = "Compare"
    THEN unparse(tree.left)
         \o Concat([i \in 1..Len(tree.ops) |->
                       <<OpTok(op_text[tree.ops[i]])>> \o unparse(tree.comparators[i])])
    ELSE IF tree.k = "BoolOp"
    THEN JoinToks(<<OpTok(op_text[tree.op])>>,
                  [i \in 1..Len(tree.values) |->
                      IF tree.values[i].k = "BoolOp"
                      THEN Parens(unparse(tree.values[i]))
                      ELSE unparse(tree.values[i])])
    ELSE IF tree.k = "BinOp"
    THEN (IF LhsParens(tree) THEN Parens(unparse(tree.left)) ELSE unparse(tree.left))
         \o <<OpTok(op_text[tree.op])>>
         \o (IF RhsParens(tree) THEN Parens(unparse(tree.right)) ELSE unparse(tree.right))
    ELSE \* UnaryOp
         <<OpTok(op_text[tree.op])>>
         \o (IF OperandParens(tree) THEN Parens(unparse(tree.operand))
             ELSE unparse(tree.operand))

RECURSIVE convert_tree(_)
\* Pktt._convert_match(tree, astout=True); every name of the modelled
\* expressions is a field of a packet layer, so convert_attrs names a wrapper.
convert_tree(tree) ==
    IF tree.k \in {"Compare", "Call", "UnaryOp", "BinOp"}
    THEN WrapperCall(unparse(tree))
    ELSE IF tree.k = "BoolOp"
    THEN [tree EXCEPT !.values =
             [i \in 1..Len(tree.values) |-> convert_tree(tree.values[i])]]
    ELSE [k |-> "Exception"]

RECURSIVE Raises_(_)
\* The conversion raises: some operand of the logical operators is no
\* comparison, call, unary or binary operation.
Raises_(tree) ==
    IF tree.k = "BoolOp"
    THEN \E i \in 1..Len(tree.values) : Raises_(tree.values[i])
    ELSE tree.k \notin {"Compare", "Call", "UnaryOp", "BinOp"}

\* Pktt._convert_match(matchstr): the compiled text, or the exception.
convert_match(tree) ==
    IF Raises_(tree) THEN [raised |-> TRUE, text |-> <<>>]
    ELSE [raised |-> FALSE, text |-> unparse(convert_tree(tree))]

\* ------------------------------------------------------- the trees checked
ExprNames == {Name("a"), Name("b")}

\* The expressions made of one operator over the members of S.
OneOp(S) ==
    {BinOp(op, l, r) : op \in {"Sub", "Mult", "Pow"}, l \in S, r \in S}
    \cup {UnaryOp(op, x) : op \in {"USub", "Not"}, x \in S}
    \cup {BoolOp(op, <<x, y>>) : op \in {"And", "Or"}, x \in S, y \in S}
    \cup {CompareOp(l, <<"Eq">>, <<r>>) : l \in S, r \in S}

\* Every expression of at most two nested operators over two names.
ExprTrees == OneOp(ExprNames \cup OneOp(ExprNames))

\* ------------------------------------------------------------------ actions
\* unparse(tree)
Unparse ==
    /\ call.op = "parse"
    /\ call' = [op |-> "unparse", tree |-> call.tree, ret |-> unparse(call.tree)]
    /\ UNCHANGED <<packets, rdma_vars, pktt_vars>>

\* self._convert_match(matchstr)
ConvertMatch ==
    /\ call.op = "parse"
    /\ call' = [op |-> "convert_match", tree |-> call.tree,
                ret |-> convert_match(call.tree)]
    /\ UNCHANGED <<packets, rdma_vars, pktt_vars>>

\* tree = ast.parse(matchstr, mode='eval')
InitExpr ==
    /\ \E tree \in ExprTrees : call = [op |-> "parse", tree |-> tree]
    /\ packets = <<>>
    /\ trace = "single"
    /\ pktt = NewPktt(Len(Traces[trace]))
    /\ since = Fresh
    /\ out = NoCall
    /\ disk = <<>>
    /\ scn = "reads2"
    /\ nframes = 0
    /\ rdma_segments = <<>>
    /\ heap = <<>>
    /\ rdma_write_chunks = <<>>
    /\ senddata = EmptyMap
    /\ rpc_log = <<>>
    /\ last_op = [frame |-> NoFrame, tab |-> <<>>, heap |-> <<>>]

NextExpr == Unparse \/ ConvertMatch

SpecExpr == InitExpr /\ [][NextExpr]_vars

\* ====================================================== Pktt.match_nfs
\* An operation of a compound is a record of its fields; a sub-predicate
\* compares one field with a value and raises on an operation without it.
NfsOps ==
    {[op |-> "SEQUENCE", status |-> 0], [op |-> "PUTFH", status |-> 0],
     [op |-> "PUTFH", status |-> 1], [op |-> "GETFH"]}
NfsExprs == {[field |-> "status", value |-> 0], [field |-> "op", value |-> "PUTFH"]}

\* The compounds matched: every array of up to three operations.
Compounds == {<<>>} \cup {<<x>> : x \in NfsOps}
             \cup {<<x, y>> : x \in NfsOps, y \in NfsOps}
             \cup {<<x, y, z>> : x \in NfsOps, y \in NfsOps, z \in NfsOps}

\* eval(expr) with nfs bound to an operation: "ok" with the value, or "raise".
eval_nfs(expr, nfs) ==
    IF expr.field \in DOMAIN nfs
    THEN [raised |-> FALSE, value |-> nfs[expr.field] = expr.value]
    ELSE [raised |-> TRUE, value |-> FALSE]

\* "for nfs in self.pkt.nfs.array": st is [ret, nfsop, nfsidx, idx]; a match
\* sets _nfsop, _nfsidx and ret and continues with the next operation, past
\* "idx += 1".
RECURSIVE nfs4_loop(_, _, _, _)
nfs4_loop(expr, array, n, st) ==
    IF n > Len(array) THEN st
    ELSE IF ~eval_nfs(expr, array[n]).raised /\ eval_nfs(expr, array[n]).value
    THEN nfs4_loop(expr, array, n + 1,
                   [st EXCEPT !.nfsop = array[n], !.nfsidx = st.idx, !.ret = TRUE])
    ELSE nfs4_loop(expr, array, n + 1, [st EXCEPT !.idx = @ + 1])

\* Pktt.match_nfs on an NFSv4 packet: [ret, nfsop, nfsidx, idx], given the
\* _nfsop and _nfsidx left by earlier calls.
match_nfs(expr, array, nfsop, nfsidx) ==
    nfs4_loop(expr, array, 1,
              [ret |-> FALSE, nfsop |-> nfsop, nfsidx |-> nfsidx, idx |-> 0])

\* ------------------------------------------------------------------ actions
\* self.match_nfs(expr) on the packet, then "pkt.NFSop = self._nfsop;
\* pkt.NFSidx = self._nfsidx" of match() when the packet matched.
MatchNfs ==
    /\ call.op = "compound"
    /\ call' = [op |-> "match_nfs", expr |-> call.expr, array |-> call.array]
               @@ match_nfs(call.expr, call.array, <<>>, -1)
    /\ UNCHANGED <<packets, rdma_vars, pktt_vars>>

InitNfs ==
    /\ \E array \in Compounds, expr \in NfsExprs :
          call = [op |-> "compound", expr |-> expr, array |-> array]
    /\ packets = <<>>
    /\ trace = "single"
    /\ pktt = NewPktt(Len(Traces[trace]))
    /\ since = Fresh
    /\ out = NoCall
    /\ disk = <<>>
    /\ scn = "reads2"
    /\ nframes = 0
    /\ rdma_segments = <<>>
    /\ heap = <<>>
    /\ rdma_write_chunks = <<>>
    /\ senddata = EmptyMap
    /\ rpc_log = <<>>
    /\ last_op = [frame |-> NoFrame, tab |-> <<>>, heap |-> <<>>]

NextNfs == MatchNfs

SpecNfs == InitNfs /\ [][NextNfs]_vars

\* ================================================== Pktt.escape
\* A python string is the sequence of its characters, each a one-character
\* string; "NUL" stands for the non-printable character chr(0) and "BQ" for
\* the back quote.  The text of a literal is a sequence of characters in the
\* same way.

MaxStr == 3

SQ == "'"

DQ == "\""

BS == "\\"

BQ == "BQ"

Chars == {"x", "2", SQ, DQ, BQ, BS, "NUL"}

DataStrings == UNION {[1..k -> Chars] : k \in 0..MaxStr}

RECURSIVE Has(_, _)
Has(text, ch) ==
    IF text = <<>> THEN FALSE
    ELSE Head(text) = ch \/ Has(Tail(text), ch)

\* The quote repr() puts around a str: a double quote when the string has a
\* single quote and no double quote, a single quote otherwise.
repr_quote(data) ==
    IF Has(data, SQ) /\ ~Has(data, DQ) THEN DQ ELSE SQ

\* What repr() writes for one character.
repr_char(ch, quote) ==
    IF ch = quote \/ ch = BS THEN <<BS, ch>>
    ELSE IF ch = "NUL" THEN <<BS, "x", "0", "0">>
    ELSE <<ch>>

RECURSIVE repr_body(_, _)
repr_body(data, quote) ==
    IF data = <<>> THEN <<>>
    ELSE repr_char(Head(data), quote) \o repr_body(Tail(data), quote)

py_repr(data) ==
    <<repr_quote(data)>> \o repr_body(data, repr_quote(data))
                         \o <<repr_quote(data)>>

\* str.replace(old, new) for a one-character old.
RECURSIVE replace(_, _, _)
replace(text, old, new) ==
    IF text = <<>> THEN <<>>
    ELSE (IF Head(text) = old THEN new ELSE <<Head(text)>>)
         \o replace(Tail(text), old, new)

\* rdata[1:-1]
Inner(rdata) == SubSeq(rdata, 2, Len(rdata) - 1)

\* The replacements of the two quotes as escape() chooses them, and the other
\* way round.
quote_hex(rdata) ==
    IF rdata[1] = DQ
    THEN [dquote |-> <<"x", "2", "2">>, squote |-> <<BS, "x", "2", "7">>]
    ELSE [dquote |-> <<BS, "x", "2", "2">>, squote |-> <<"x", "2", "7">>]

escape_with(rdata, hex) ==
    replace(replace(Inner(rdata), DQ, hex.dquote), SQ, hex.squote)

escape_swapped(data) ==
    escape_with(py_repr(data),
                [dquote |-> quote_hex(py_repr(data)).squote,
                 squote |-> quote_hex(py_repr(data)).dquote])

\* Pktt.escape(data) of a str.
escape(data) == escape_with(py_repr(data), quote_hex(py_repr(data)))

\* ---- evaluation of a string literal by python
HexVal ==
    [d \in {"0", "1", "2", "3", "4", "5", "6", "7", "8", "9"} |->
        CASE d = "0" -> 0 [] d = "1" -> 1 [] d = "2" -> 2 [] d = "3" -> 3
          [] d = "4" -> 4 [] d = "5" -> 5 [] d = "6" -> 6 [] d = "7" -> 7
          [] d = "8" -> 8 [] d = "9" -> 9]

IsHex(text, i) == i <= Len(text) /\ text[i] \in DOMAIN HexVal

IsOct(text, i) == IsHex(text, i) /\ HexVal[text[i]] < 8

\* chr(code)
Chr(code) ==
    CASE code = 0 -> "NUL"
      [] code = 34 -> DQ
      [] code = 39 -> SQ
      [] code = 50 -> "2"
      [] code = 92 -> BS
      [] code = 96 -> BQ
      [] code = 120 -> "x"
      [] OTHER -> "chr(" \o ToString(code) \o ")"

SyntaxError == [raised |-> TRUE, value |-> <<>>]

\* The number of octal digits of an octal escape that starts at i.
OctLen(text, i) ==
    IF ~IsOct(text, i + 1) THEN 1
    ELSE IF ~IsOct(text, i + 2) THEN 2 ELSE 3

OctCode(text, i, n) ==
    IF n = 1 THEN HexVal[text[i]]
    ELSE IF n = 2 THEN 8 * HexVal[text[i]] + HexVal[text[i + 1]]
    ELSE 64 * HexVal[text[i]] + 8 * HexVal[text[i + 1]] + HexVal[text[i + 2]]

\* The characters of a literal from position i on, up to the closing quote.
\* A literal is the whole expression: text after the closing quote, a missing
\* closing quote, a null byte in the source and a malformed \x escape are
\* errors.
RECURSIVE scan(_, _, _, _)
scan(text, i, quote, acc) ==
    IF i > Len(text) THEN SyntaxError
    ELSE IF text[i] = quote
    THEN (IF i = Len(text) THEN [raised |-> FALSE, value |-> acc]
          ELSE SyntaxError)
    ELSE IF text[i] = "NUL" THEN SyntaxError
    ELSE IF text[i] # BS THEN scan(text, i + 1, quote, Append(acc, text[i]))
    ELSE IF i + 1 > Len(text) THEN SyntaxError
    ELSE IF text[i + 1] \in {BS, SQ, DQ}
    THEN scan(text, i + 2, quote, Append(acc, text[i + 1]))
    ELSE IF text[i + 1] = "x"
    THEN (IF IsHex(text, i + 2) /\ IsHex(text, i + 3)
          THEN scan(text, i + 4, quote,
                    Append(acc, Chr(16 * HexVal[text[i + 2]]
                                    + HexVal[text[i + 3]])))
          ELSE SyntaxError)
    ELSE IF IsOct(text, i + 1)
    THEN scan(text, i + 1 + OctLen(text, i + 1), quote,
              Append(acc, Chr(OctCode(text, i + 1, OctLen(text, i + 1)))))
    ELSE IF text[i + 1] = "NUL" THEN SyntaxError
    ELSE scan(text, i + 2, quote, acc \o <<BS, text[i + 1]>>)

py_eval(text) ==
    IF Len(text) < 2 \/ text[1] \notin {SQ, DQ} THEN SyntaxError
    ELSE scan(text, 2, text[1], <<>>)

\* "%s%s%s" % (quote, Pktt.escape(data), quote)
Literal(quote, escaped) == <<quote>> \o escaped \o <<quote>>

\* escaped_data = Pktt.escape(data)
Escape ==
    /\ call.op = "data"
    /\ call' = [op |-> "escape", data |-> call.data, ret |-> escape(call.data)]
    /\ UNCHANGED <<packets, rdma_vars, pktt_vars>>

\* eval("data == %s%s%s" % (quote, Pktt.escape(data), quote)) of the self
\* test, for one of its two quotes.
SelfTest ==
    /\ call.op = "escape"
    /\ \E quote \in {SQ, DQ} :
          call' = [op |-> "eval", data |-> call.data, quote |-> quote,
                   expr |-> Literal(quote, call.ret)]
                  @@ py_eval(Literal(quote, call.ret))
    /\ UNCHANGED <<packets, rdma_vars, pktt_vars>>

InitEscape ==
    /\ \E data \in DataStrings : call = [op |-> "data", data |-> data]
    /\ packets = <<>>
    /\ trace = "single"
    /\ pktt = NewPktt(Len(Traces[trace]))
    /\ since = Fresh
    /\ out = NoCall
    /\ disk = <<>>
    /\ scn = "reads2"
    /\ nframes = 0
    /\ rdma_segments = <<>>
    /\ heap = <<>>
    /\ rdma_write_chunks = <<>>
    /\ senddata = EmptyMap
    /\ rpc_log = <<>>
    /\ last_op = [frame |-> NoFrame, tab |-> <<>>, heap |-> <<>>]

NextEscape == Escape \/ SelfTest

SpecEscape == InitEscape /\ [][NextEscape]_vars

\* ================================================== RDMAseg.insert_data
\* The RDMA engine and the trace reader at rest.
EngineIdle ==
    /\ trace = "single"
    /\ pktt = NewPktt(Len(Traces[trace]))
    /\ since = Fresh
    /\ out = NoCall
    /\ disk = <<>>
    /\ scn = "reads2"
    /\ nframes = 0
    /\ rdma_segments = <<>>
    /\ heap = <<>>
    /\ rdma_write_chunks = <<>>
    /\ senddata = EmptyMap
    /\ rpc_log = <<>>
    /\ last_op = [frame |-> NoFrame, tab |-> <<>>, heap |-> <<>>]

\* The most PSNs in the window of a sub-segment and the most fragments given
\* to a segment.
MaxWin == 2

MaxInserts == 3

\* The first PSN of the first sub-segment.
FirstPsn == 5

\* The payloads of the fragments.
Payloads == {<<1>>, <<2, 3>>}

\* A segment with one sub-segment of w1 PSNs, and a second one of w2 PSNs
\* right after it when w2 > 0 (Write First with RETH, one byte to a PSN).
WindowedSegment(w1, w2) ==
    IF w2 = 0
    THEN add_sub_segment(RDMAsegment(WS(1, w1), NoRpcrdma),
                         FirstPsn, w1, FALSE, 1).rs
    ELSE add_sub_segment(
             add_sub_segment(RDMAsegment(WS(1, w1 + w2), NoRpcrdma),
                             FirstPsn, w1, FALSE, 1).rs,
             FirstPsn + w1, w2, FALSE, 1).rs

\* The PSNs of the windows of a segment.
Window(seg) == seg.spsn..seg.epsn

Windows(rs) == UNION {Window(rs.seglist[i]) : i \in 1..Len(rs.seglist)}

\* segment.add_data(psn, data) for a PSN of one of the windows; hist is the
\* fragments given so far, in arrival order.
AddData(psn, data) ==
    /\ call.op \in {"segment", "add_data"}
    /\ Len(call.hist) < MaxInserts
    /\ psn \in Windows(call.rs)
    /\ call' = [op |-> "add_data", rs |-> add_data(call.rs, psn, data),
                hist |-> Append(call.hist, [psn |-> psn, data |-> data])]
    /\ UNCHANGED <<packets, rdma_vars, pktt_vars>>

InitSeg ==
    /\ \E w1 \in 1..MaxWin, w2 \in 0..MaxWin :
          call = [op |-> "segment", rs |-> WindowedSegment(w1, w2),
                  hist |-> <<>>]
    /\ packets = <<>>
    /\ EngineIdle

NextSeg ==
    \E psn \in FirstPsn..(FirstPsn + 2 * MaxWin), data \in Payloads :
        AddData(psn, data)

SpecSeg == InitSeg /\ [][NextSeg]_vars

\* ================================================== one segment, two sinks
\* A call with a read chunk of one 3-byte segment (handle 1) that the
\* responder fetches with two read requests, each into a buffer of its own:
\* sink STag 4 for the first two bytes, sink STag 5 for the third.
SinkFrames ==
    {SendF(0, 1, 0, 1, SendBytes(7)),
     ReadRequestF(4, 0, 2, 1),
     ReadResponseF(4, 0, 1, <<ChunkByte(1, 0), ChunkByte(1, 1)>>),
     ReadRequestF(5, 2, 1, 1),
     ReadResponseF(5, 2, 1, <<ChunkByte(1, 2)>>)}

InitSink == EngineIdle /\ LibIdle

NextSink ==
    \/ \E f \in SinkFrames : RdmapSend(f)
    \/ \E f \in SinkFrames : RdmapReadRequest(f)
    \/ \E f \in SinkFrames : RdmapReadResponse(f)

SpecSink == InitSink /\ [][NextSink]_vars

\* ================================================== a message after a reply
\* A call that offers two write chunks and its reply (the same header), the
\* RDMA writes that fill the first chunk, and a message of another exchange
\* that has no chunk list.
StaleFrames ==
    {SendF(0, 1, 0, 1, SendBytes(5)),
     WriteF(1, 0, 1, <<ChunkByte(1, 0), ChunkByte(1, 1)>>),
     WriteF(2, 0, 1, <<ChunkByte(2, 0), ChunkByte(2, 1)>>),
     SendF(0, 2, 0, 1, SendBytes(9)),
     SendF(0, 3, 0, 1, SendBytes(12))}

InitStale == EngineIdle /\ LibIdle

NextStale ==
    \/ \E f \in StaleFrames : RdmapSend(f)
    \/ \E f \in StaleFrames : RdmapWrite(f)

SpecStale == InitStale /\ [][NextStale]_vars

\* ================================================== Pktt.match: NFSop
\* The most packets of a search.
MaxOpPkts == 2

\* A sub-expression of one layer, as _convert_match hands it to the wrapper of
\* the layer.
Term(layer, field, value) == [layer |-> layer, field |-> field, value |-> value]

NfsStatus0 == Term("nfs", "status", 0)

RpcXid2 == Term("rpc", "xid", 2)

RpcXid9 == Term("rpc", "xid", 9)

\* The expressions searched for, as the alternatives of an "or", each the
\* terms of an "and":
\*   NFS.status == 0
\*   RPC.xid == 2 and NFS.status == 0
\*   NFS.status == 0 and RPC.xid == 9
\*   NFS.status == 0 and RPC.xid == 9 or RPC.xid == 2
OpExprs ==
    {<<<<NfsStatus0>>>>,
     <<<<RpcXid2, NfsStatus0>>>>,
     <<<<NfsStatus0, RpcXid9>>>>,
     <<<<NfsStatus0, RpcXid9>>, <<RpcXid2>>>>}

\* The operations of the compound of the packet with the given index: each
\* is an object of its own.
OwnOps(array, index) ==
    [n \in 1..Len(array) |-> [owner |-> index, n |-> n] @@ array[n]]

OpArrays ==
    LET ops == {[op |-> "SEQUENCE", status |-> 0], [op |-> "PUTFH", status |-> 1]}
    IN  {<<>>} \cup {<<x>> : x \in ops} \cup {<<x, y>> : x \in ops, y \in ops}

OpXids == {2, 7, 9}

\* The packets of a trace of NFSv4 compounds.
OpPkt(index, xid, array) ==
    [index |-> index, xid |-> xid, array |-> OwnOps(array, index)]

\* self._nfsop = None; self._nfsidx = None
NoOp == [nfsop |-> <<>>, nfsidx |-> -1]

\* self.match_rpc(expr): the expression evaluated on the RPC layer
match_rpc(term, pkt) == pkt[term.field] = term.value

\* The wrapper call of one term: its value and the _nfsop and _nfsidx it
\* leaves.
eval_term(term, pkt, st) ==
    IF term.layer = "nfs"
    THEN LET r == match_nfs(term, pkt.array, st.nfsop, st.nfsidx)
         IN  [value |-> r.ret, nfsop |-> r.nfsop, nfsidx |-> r.nfsidx]
    ELSE [value |-> match_rpc(term, pkt)] @@ st

\* "a and b and ...": the terms are evaluated in order up to the first that
\* is false.
RECURSIVE eval_and(_, _, _, _)
eval_and(terms, n, pkt, st) ==
    IF n > Len(terms) THEN [value |-> TRUE] @@ st
    ELSE LET r == eval_term(terms[n], pkt, st)
         IN  IF r.value
             THEN eval_and(terms, n + 1, pkt, [nfsop |-> r.nfsop, nfsidx |-> r.nfsidx])
             ELSE r

\* "x or y or ...": the alternatives are evaluated in order up to the first
\* that is true.
RECURSIVE eval_or(_, _, _, _)
eval_or(expr, n, pkt, st) ==
    IF n > Len(expr) THEN [value |-> FALSE] @@ st
    ELSE LET r == eval_and(expr[n], 1, pkt, st)
         IN  IF r.value THEN r
             ELSE eval_or(expr, n + 1, pkt, [nfsop |-> r.nfsop, nfsidx |-> r.nfsidx])

\* eval(pdata) on the packet
eval_pdata(expr, pkt, st) == eval_or(expr, 1, pkt, st)

\* "for pkt in pkt_list: ... if eval(pdata): pkt.NFSop = self._nfsop;
\* pkt.NFSidx = self._nfsidx; return pkt" and "return None" after the loop.
RECURSIVE match_ops(_, _, _, _)
match_ops(expr, pkts, n, st) ==
    IF n > Len(pkts) THEN [found |-> FALSE]
    ELSE LET r == eval_pdata(expr, pkts[n], st)
         IN  IF r.value
             THEN [found |-> TRUE, pkt |-> pkts[n], at |-> n,
                   NFSop |-> r.nfsop, NFSidx |-> r.nfsidx]
             ELSE match_ops(expr, pkts, n + 1,
                            [nfsop |-> r.nfsop, nfsidx |-> r.nfsidx])

\* The traces searched.
RECURSIVE OpTraces(_)
OpTraces(n) ==
    IF n = 0 THEN {<<>>}
    ELSE {Append(t, OpPkt(n, xid, array)) :
             t \in OpTraces(n - 1), xid \in OpXids, array \in OpArrays}

\* ------------------------------------------------------------------ actions
\* match(expr) on a trace read from its start, with no maxindex and reply
\* left False.
MatchOps ==
    /\ call.op = "trace"
    /\ call' = [op |-> "match", expr |-> call.expr, pkts |-> call.pkts,
                ret |-> match_ops(call.expr, call.pkts, 1, NoOp)]
    /\ UNCHANGED <<packets, rdma_vars, pktt_vars>>

InitOps ==
    /\ \E n \in 1..MaxOpPkts :
          \E pkts \in OpTraces(n), expr \in OpExprs :
              call = [op |-> "trace", expr |-> expr, pkts |-> pkts]
    /\ packets = <<>>
    /\ EngineIdle

NextOps == MatchOps

SpecOps == InitOps /\ [][NextOps]_vars

\* ================================================== Pktt._read, Pktt.seek
\* READ_SIZE is 64*1024 in the source; the file, the buffer and the reads are
\* scaled down together.
READ_SIZE == 2

\* The size of the trace file and the most bytes asked of one read.
TraceSize == 6

MaxCount == 3

\* The bytes of the file: the byte at an offset has the offset for its value.
File == [i \in 1..TraceSize |-> i - 1]

Smaller(a, b) == IF a < b THEN a ELSE b

Larger(a, b) == IF a > b THEN a ELSE b

\* self.fh.read(n) with the file pointer at tell
fh_read(tell, n) == SubSeq(File, tell + 1, Smaller(tell + n, TraceSize))

\* What an unbuffered read of count bytes at the offset returns.
FileBytes(offset, count) == Slice(File, offset, offset + count)

\* The reader of an open trace that is not live: the file pointer, the read
\* buffer and its offset, the offset of the object.
OpenReader == [tell |-> 0, rdbuffer |-> <<>>, rdoffset |-> 0, offset |-> 0]

\* "if self.rdoffset > READ_SIZE: ..." of a read that needs more bytes
trim(r) ==
    IF r.rdoffset > READ_SIZE
    THEN [r EXCEPT !.rdbuffer = Slice(@, r.rdoffset - READ_SIZE, Len(@)),
                   !.rdoffset = READ_SIZE]
    ELSE r

\* "self.rdbuffer += self.fh.read(max(count, READ_SIZE))"
refill(r, count) ==
    [r EXCEPT !.rdbuffer = @ \o fh_read(r.tell, Larger(count, READ_SIZE)),
              !.tell = @ + Len(fh_read(r.tell, Larger(count, READ_SIZE)))]

\* The reader when the bytes are taken from the buffer.
buffered(r, count) ==
    IF count > Len(r.rdbuffer) - r.rdoffset THEN refill(trim(r), count) ELSE r

\* Pktt._read(count) on a trace that is not live: the data returned and the
\* reader it leaves.
read(r, count) ==
    LET b == buffered(r, count)
        data == Slice(b.rdbuffer, b.rdoffset, b.rdoffset + count)
    IN  [data |-> data,
         r |-> [b EXCEPT !.rdoffset = @ + count, !.offset = @ + Len(data)]]

\* Pktt.seek(offset, os.SEEK_SET, hard)
seek_set(r, offset, hard) ==
    LET soffset == r.tell - Len(r.rdbuffer)
    IN  IF hard \/ offset < soffset
        THEN [tell |-> offset, rdbuffer |-> <<>>, rdoffset |-> 0, offset |-> offset]
        ELSE [r EXCEPT !.rdoffset = offset - soffset, !.offset = offset]

\* ------------------------------------------------------------------ actions
\* self._read(count); behind is the bytes left in the buffer before the read
\* offset by a trim, ahead tells that a seek left the read offset past the
\* end of the buffer.
Read(count) ==
    /\ call.op \in {"open", "_read", "seek"}
    /\ call' = [op |-> "_read", count |-> count, from |-> call.r.offset,
                data |-> read(call.r, count).data, r |-> read(call.r, count).r,
                trimmed |-> /\ count > Len(call.r.rdbuffer) - call.r.rdoffset
                            /\ call.r.rdoffset > READ_SIZE,
                behind |-> Smaller(Len(trim(call.r).rdbuffer), trim(call.r).rdoffset),
                ahead |-> call.ahead]
    /\ UNCHANGED <<packets, rdma_vars, pktt_vars>>

Seek(offset, hard) ==
    /\ call.op \in {"open", "_read", "seek"}
    /\ call' = [op |-> "seek", count |-> 0, from |-> call.r.offset, data |-> <<>>,
                r |-> seek_set(call.r, offset, hard), trimmed |-> FALSE, behind |-> 0,
                ahead |-> LET s == seek_set(call.r, offset, hard)
                          IN  s.rdoffset > Len(s.rdbuffer)]
    /\ UNCHANGED <<packets, rdma_vars, pktt_vars>>

InitRead ==
    /\ call = [op |-> "open", count |-> 0, from |-> 0, data |-> <<>>,
               r |-> OpenReader, trimmed |-> FALSE, behind |-> 0, ahead |-> FALSE]
    /\ packets = <<>>
    /\ EngineIdle

NextRead ==
    \/ \E count \in 1..MaxCount : Read(count)
    \/ \E offset \in 0..TraceSize, hard \in BOOLEAN : Seek(offset, hard)

SpecRead == InitRead /\ [][NextRead]_vars

\* ================================================== DDP, RDMAP, MPA decoders
\* The Unpacker over the bytes of a record: the cursor and the length.  Its
\* tell, seek, size and read.
unpack_tell(u) == u.pos

unpack_seek(u, offset) == [u EXCEPT !.pos = offset]

unpack_size(u) == u.len - u.pos

unpack_read(u, n) ==
    [u EXCEPT !.pos = IF n > unpack_size(u) THEN u.len ELSE u.pos + n]

\* The names of the three layers.
DdpName == <<"d", "d", "p">>

RdmapName == <<"r", "d", "m", "a", "p">>

MpaName == <<"m", "p", "a">>

\* A decoder that leaves the cursor where it stopped reading when it rejects.
ddp_init_kept(u, pkt, hdr) ==
    IF hdr.reserved # 0 \/ hdr.version # 1
    THEN [u |-> unpack_read(u, 6), pkt |-> pkt]
    ELSE [u   |-> unpack_seek(u, u.len),
          pkt |-> add_layer(pkt, DdpName, 1)]

\* DDP.__init__: [u, pkt].  hdr is the first byte as it is taken apart:
\* tagged, lastfl, reserved, version.
ddp_init(u, pkt, hdr) ==
    IF hdr.reserved # 0 \/ hdr.version # 1
    THEN [u |-> unpack_seek(unpack_read(u, 6), unpack_tell(u)), pkt |-> pkt]
    ELSE [u   |-> unpack_read(
                      unpack_read(unpack_read(u, 6),
                                  IF hdr.tagged = 1 THEN 8 ELSE 12),
                      u.len),
          pkt |-> add_layer(pkt, DdpName, 1)]

\* RDMAP.__init__: [u, pkt].  pinfo is the control byte as it is taken apart:
\* version, reserved, opcode; the bytes _decode_payload leaves are read as
\* data at the end.
rdmap_init(u, pkt, pinfo) ==
    IF pinfo.version \notin {0, 1} \/ pinfo.reserved # 0
    THEN [u |-> unpack_seek(u, unpack_tell(u)), pkt |-> pkt]
    ELSE [u   |-> unpack_read(
                      IF pinfo.opcode = "RDMA_Read_Request"
                      THEN unpack_read(u, 28) ELSE u,
                      u.len),
          pkt |-> add_layer(pkt, RdmapName, 1)]

\* 0x4d50, "MP"
MP == 19792

\* (4 - ((mpalen+2) & 0x03)) & 0x03
MpaPadding(mpalen) == (4 - ((mpalen + 2) % 4)) % 4

\* "size = record.length_orig - unpack.tell() - 4" less the padding, after the
\* two bytes of the length were read; the record was captured whole but for
\* delta bytes.
MpaSize(u, frame) ==
    (u.len + frame.delta) - (unpack_tell(u) + 2) - 4 - MpaPadding(frame.mpalen)

\* MPA._mpa_frame: the four bytes after the key, then psize bytes of data.
mpa_frame(u, pkt, frame) ==
    [u   |-> unpack_read(unpack_read(u, 4), frame.psize),
     pkt |-> add_layer(pkt, MpaName, 1)]

\* MPA._mpa_setup: [u, pkt]; offset is the cursor as MPA.__init__ was entered
\* and u the unpacker after the length was read.
mpa_setup(u, pkt, frame, offset) ==
    IF frame.mpalen = MP /\ frame.key \in {"MPA ID Req Frame", "MPA ID Rep Frame"}
    THEN mpa_frame(unpack_read(unpack_seek(u, offset), 16), pkt, frame)
    ELSE [u |-> unpack_seek(u, offset), pkt |-> pkt]

\* The Full Operation Phase frame: the data, then the CRC when the whole
\* frame was captured.
mpa_data(u, frame) ==
    IF unpack_size(u) - (IF frame.delta < 4 THEN 4 - frame.delta ELSE 0) > 0
    THEN unpack_read(u,
             IF frame.mpalen
                  < unpack_size(u) - (IF frame.delta < 4 THEN 4 - frame.delta ELSE 0)
             THEN frame.mpalen
             ELSE unpack_size(u) - (IF frame.delta < 4 THEN 4 - frame.delta ELSE 0))
    ELSE u

mpa_crc(u, frame) ==
    IF frame.delta = 0 /\ unpack_size(u) >= 4 THEN unpack_read(u, 4) ELSE u

\* MPA.__init__: [u, pkt]
mpa_init(u, pkt, frame) ==
    IF unpack_size(u) < 8 THEN [u |-> u, pkt |-> pkt]
    ELSE IF frame.mpalen # MpaSize(u, frame)
    THEN mpa_setup(unpack_read(u, 2), pkt, frame, unpack_tell(u))
    ELSE [u   |-> mpa_crc(mpa_data(unpack_read(u, 2), frame), frame),
          pkt |-> add_layer(pkt, MpaName, 1)]

\* The first byte of a DDP header, the control byte given to RDMAP, and what
\* MPA finds: the length, the bytes of the record that were not captured,
\* the 16 bytes at the cursor and the size of the private data.
DdpHeaders ==
    [tagged : {0, 1}, lastfl : {0, 1}, reserved : {0, 1}, version : {0, 1, 2}]

RdmapControls ==
    [version : 0..3, reserved : {0, 1}, opcode : {"Send", "RDMA_Read_Request"}]

MpaFrames ==
    {f \in [mpalen : {6, 18, MP}, delta : {0, 2},
            key : {"MPA ID Req Frame", "MPA ID Rep Frame", "other"},
            psize : {0, 4}] :
        f.key # "other" => f.mpalen = MP}

\* The cursor as a decoder is entered and the bytes left from there on.
Offsets == {0, 14}

BytesLeft == {4, 12, 24, 40}

\* The call of a decoder and what it left: the cursor at entry, the
\* unpacker and the packet after it.
Decoder(layer, in, r) ==
    [op |-> layer, in |-> in, entry |-> call.u, u |-> r.u, pkt |-> r.pkt]

DDPInit(hdr) ==
    /\ call.op = "frame"
    /\ unpack_size(call.u) >= 18
    /\ call' = Decoder("DDP", hdr, ddp_init(call.u, call.pkt, hdr))
    /\ UNCHANGED <<packets, rdma_vars, pktt_vars>>

RDMAPInit(pinfo) ==
    /\ call.op = "frame"
    /\ unpack_size(call.u) >= 28
    /\ call' = Decoder("RDMAP", pinfo, rdmap_init(call.u, call.pkt, pinfo))
    /\ UNCHANGED <<packets, rdma_vars, pktt_vars>>

MPAInit(frame) ==
    /\ call.op = "frame"
    /\ frame.key # "other" => unpack_size(call.u) >= 20
    /\ call' = Decoder("MPA", frame, mpa_init(call.u, call.pkt, frame))
    /\ UNCHANGED <<packets, rdma_vars, pktt_vars>>

InitDecode ==
    /\ \E offset \in Offsets, left \in BytesLeft :
          call = [op |-> "frame", u |-> [pos |-> offset, len |-> offset + left],
                  pkt |-> PktObj]
    /\ packets = <<>>
    /\ EngineIdle

NextDecode ==
    \/ \E hdr \in DdpHeaders : DDPInit(hdr)
    \/ \E pinfo \in RdmapControls : RDMAPInit(pinfo)
    \/ \E frame \in MpaFrames : MPAInit(frame)

SpecDecode == InitDecode /\ [][NextDecode]_vars

\* ================================================== vlan_layers
\* The most VLAN tags stacked in a frame.
MaxTags == 3

\* The payload types of a VLAN tag that is followed by another: 0x8100
\* (802.1Q) and 0x88A8 (802.1ad).
Dot1Q == 33024

Dot1AD == 34984

\* The payload types of an innermost tag: IPv4.
PayloadTypes == {2048}

VlanName == <<"v", "l", "a", "n">>

\* str(n) of a natural number.
RECURSIVE Str(_)
Str(n) ==
    IF n < 10 THEN <<(<<"0", "1", "2", "3", "4", "5", "6", "7", "8", "9">>)[n + 1]>>
    ELSE Str(n \div 10) \o Str(n % 10)

\* A loop that takes the tags from the end of the list.
RECURSIVE vlan_named_last(_, _, _, _)
vlan_named_last(pkt, vlan_list, i, n) ==
    IF i >= n THEN pkt
    ELSE vlan_named_last(
             add_layer(pkt, VlanName \o Str(i + 1), vlan_list[Len(vlan_list)]),
             SubSeq(vlan_list, 1, Len(vlan_list) - 1), i + 1, n)

\* "for i in range(len(vlan_list)):
\*      pktt.pkt.add_layer('vlan'+str(i+1), vlan_list.pop(0))"
\* with n the length of the list as the loop began.
RECURSIVE vlan_named(_, _, _, _)
vlan_named(pkt, vlan_list, i, n) ==
    IF i >= n THEN pkt
    ELSE vlan_named(add_layer(pkt, VlanName \o Str(i + 1), Head(vlan_list)),
                    Tail(vlan_list), i + 1, n)

\* "while True: vlan = VLAN(pktt) ...": tags is what VLAN(pktt) decodes from
\* the cursor on, one tag at a call.
RECURSIVE vlan_loop(_, _, _)
vlan_loop(pkt, tags, vlan_list) ==
    IF Head(tags).etype = Dot1Q \/ Head(tags).etype = Dot1AD
    THEN vlan_loop(pkt, Tail(tags), Append(vlan_list, Head(tags)))
    ELSE add_layer(vlan_named(pkt, vlan_list, 0, Len(vlan_list)),
                   VlanName, Head(tags))

\* vlan_layers(pktt): the packet with the layers attached.
vlan_layers(pkt, tags) == vlan_loop(pkt, tags, <<>>)

\* The VLAN identifiers of the tags.
Vids == {1, 2, 3}

\* The frames with k tags: each tag but the last announces another tag.
Tagged(k) ==
    {tags \in [1..k -> [vid : Vids, etype : {Dot1Q, Dot1AD} \cup PayloadTypes]] :
        /\ tags[k].etype \in PayloadTypes
        /\ \A i \in 1..(k - 1) : tags[i].etype \notin PayloadTypes}

VlanLayers ==
    /\ call.op = "tags"
    /\ call' = [op |-> "vlan_layers", tags |-> call.tags,
                pkt |-> vlan_layers(PktObj, call.tags)]
    /\ UNCHANGED <<packets, rdma_vars, pktt_vars>>

InitVlan ==
    /\ \E k \in 1..MaxTags :
          \E tags \in Tagged(k) : call = [op |-> "tags", tags |-> tags]
    /\ packets = <<>>
    /\ EngineIdle

NextVlan == VlanLayers

SpecVlan == InitVlan /\ [][NextVlan]_vars

\* ================================================== properties: RDMA engine
\* The bytes a segment of a chunk list stands for, in offset order.
SegBytes(seg) == [o \in 1..seg.length |-> ChunkByte(seg.handle, o - 1)]

SeqRange(q) == {q[n] : n \in 1..Len(q)}

\* bytes sit in data from byte offset p on.
PlacedAt(data, p, bytes) ==
    /\ p + Len(bytes) <= Len(data)
    /\ SubSeq(data, p + 1, p + Len(bytes)) = bytes

\* The n-th byte of a message lies within a chunk of the read list.
InChunk(reads, n) ==
    \E k \in 1..Len(reads) :
        reads[k].position < n /\ n <= reads[k].position + reads[k].length

RECURSIVE OutsideBytes(_, _, _)
\* The bytes of a message that lie in no chunk, in order, from the n-th on.
OutsideBytes(data, reads, n) ==
    IF n > Len(data) THEN <<>>
    ELSE (IF InChunk(reads, n) THEN <<>> ELSE <<data[n]>>)
         \o OutsideBytes(data, reads, n + 1)

\* Every byte an RDMAsegment object holds, in its sub-segments or fragments.
BytesIn(rs) ==
    SeqRange(Concat([i \in 1..Len(rs.seglist) |-> Concat(rs.seglist[i].fraglist)]))
    \cup UNION {SeqRange(rs.fragments[o]) : o \in DOMAIN rs.fragments}

\* The segment object has received every byte of its declared length: its
\* sub-segments hold that many bytes (InfiniBand), or its fragments cover
\* every offset of the segment (iWARP).
HasAllBytes(rs) ==
    IF Len(rs.seglist) > 0
    THEN SumInts([i \in 1..Len(rs.seglist) |-> seg_get_size(rs.seglist[i])])
             >= rs.length
    ELSE \A o \in 0..(rs.length - 1) :
            \E off \in DOMAIN rs.fragments :
                /\ off <= get_offset(rs) + o
                /\ get_offset(rs) + o < off + Len(rs.fragments[off])

\* The RPC decoder invocations of the frame decoded last.
LastDelivered == {i \in 1..Len(rpc_log) : rpc_log[i].frame = nframes}

\* The read list of the header a decoder invocation belongs to.
ReadsOf(i) == Headers[rpc_log[i].hdr].reads

\* The object a handle named when the frame decoded last arrived.
ObjBefore(handle) == TabGet(last_op.tab, handle)

\* C1: for a call with read chunks at ascending XDR positions, the message
\* handed to the RPC decoder holds each chunk's data from byte offset p_i on,
\* and the bytes outside the chunks are the reduced message, once and in
\* order.  (Stated for the deliveries in which every chunk's data is present.)
C1_ChunksAtTheirPositions ==
    \A i \in 1..Len(rpc_log) :
        (/\ ReadsOf(i) # <<>>
         /\ \A k \in 1..Len(ReadsOf(i)) :
                \E q \in 0..Len(rpc_log[i].data) :
                    PlacedAt(rpc_log[i].data, q, SegBytes(ReadsOf(i)[k])))
        => /\ \A k \in 1..Len(ReadsOf(i)) :
                  PlacedAt(rpc_log[i].data, ReadsOf(i)[k].position,
                           SegBytes(ReadsOf(i)[k]))
           /\ OutsideBytes(rpc_log[i].data, ReadsOf(i), 1)
                  = Headers[rpc_log[i].hdr].data

\* C2: a call with read chunks is handed to the RPC decoder not on the frame
\* of the reduced Send, and only on a read response after which every segment
\* of the saved header's read list is registered and has received all of its
\* declared bytes.
C2_DeliveredOnlyWhenComplete ==
    \A i \in 1..Len(rpc_log) :
        ReadsOf(i) # <<>>
        => /\ rpc_log[i].op # "Send"
           /\ i \in LastDelivered
              => \A k \in 1..Len(ReadsOf(i)) :
                    /\ ObjBefore(ReadsOf(i)[k].handle) # 0
                    /\ HasAllBytes(heap[ObjBefore(ReadsOf(i)[k].handle)])

\* The segments a decoder invocation consumed, each with the padding its
\* data was taken with: the read list, and the reply chunk of an RDMA_NOMSG.
ConsumedSegs(i) ==
    {[seg |-> ReadsOf(i)[k], padding |-> ChunkPadding(ReadsOf(i)[k].position)] :
        k \in 1..Len(ReadsOf(i))}
    \cup (IF Headers[rpc_log[i].hdr].proc = "RDMA_NOMSG"
             /\ Headers[rpc_log[i].hdr].reply # <<>>
          THEN {[seg |-> Headers[rpc_log[i].hdr].reply[1][k], padding |-> TRUE] :
                  k \in 1..Len(Headers[rpc_log[i].hdr].reply[1])}
          ELSE {})

\* C3: the bytes handed to the RPC decoder for a consumed segment of declared
\* length L are its L bytes in ascending offset order, whatever the order in
\* which its fragments and the First fragments of its sub-segments arrived.
\* (Stated for the segments all of whose bytes have arrived.)
C3_SegmentInOffsetOrder ==
    \A i \in LastDelivered :
        \A c \in ConsumedSegs(i) :
            (/\ ObjBefore(c.seg.handle) # 0
             /\ SeqRange(SegBytes(c.seg))
                    \subseteq BytesIn(heap[ObjBefore(c.seg.handle)]))
            => get_data(heap[ObjBefore(c.seg.handle)], c.padding) = SegBytes(c.seg)

\* The declared length of a read list.
RECURSIVE ReadsLength(_)
ReadsLength(reads) ==
    IF reads = <<>> THEN 0 ELSE Head(reads).length + ReadsLength(Tail(reads))

\* A decoder invocation for a call whose read list is a Position-Zero Read Chunk.
IsPZRC(i) ==
    /\ ReadsOf(i) # <<>>
    /\ \A k \in 1..Len(ReadsOf(i)) : ReadsOf(i)[k].position = 0

\* C4: a completed Position-Zero Read Chunk is spliced with no pad bytes: its
\* segments contribute exactly their declared number of bytes and the reduced
\* message follows immediately after the chunk.
C4_PositionZeroUnpadded ==
    \A i \in 1..Len(rpc_log) :
        IsPZRC(i)
        => /\ Len(rpc_log[i].data)
                  = ReadsLength(ReadsOf(i)) + Len(Headers[rpc_log[i].hdr].data)
           /\ PadByte \notin SeqRange(rpc_log[i].data)
           /\ SliceFrom(rpc_log[i].data, ReadsLength(ReadsOf(i)))
                  = Headers[rpc_log[i].hdr].data

\* C4 witness: a Position-Zero Read Chunk whose wire data carried a pad byte
\* was delivered, chunk first and reduced message after it.
C4_Witness ==
    \E i \in LastDelivered :
        /\ IsPZRC(i)
        /\ PadByte \in BytesIn(heap[ObjBefore(ReadsOf(i)[1].handle)])
        /\ rpc_log[i].data
               = SegBytes(ReadsOf(i)[1]) \o Headers[rpc_log[i].hdr].data

\* The header of the Send decoded last (0 when the last frame was no whole
\* Send carrying a header).
LastSendHdr ==
    IF last_op.frame.op = "Send" /\ last_op.frame.lastfl # 0
       /\ last_op.frame.offset = 0
    THEN RPCoRDMA(last_op.frame.data).hdr
    ELSE 0

\* The Send decoded last carried a write list all of whose segments were
\* registered before.
WritesRegistered ==
    /\ LastSendHdr # 0
    /\ Headers[LastSendHdr].writes # <<>>
    /\ \A c \in 1..Len(Headers[LastSendHdr].writes) :
          \A k \in 1..Len(Headers[LastSendHdr].writes[c]) :
              ObjBefore(Headers[LastSendHdr].writes[c][k].handle) # 0

\* The declared write chunks of a header, each as the list of its segments'
\* objects in declared order.
DeclaredChunks(h) ==
    [c \in 1..Len(Headers[h].writes) |->
        [k \in 1..Len(Headers[h].writes[c]) |->
            ObjBefore(Headers[h].writes[c][k].handle)]]

HasSegment(list) == list # <<>>

\* C5: after a header with a write list whose segments were registered,
\* rdma_write_chunks has one entry for each declared write chunk that has at
\* least one segment, in declared order, each listing its segments in
\* declared order.
C5_WriteChunksInOrder ==
    WritesRegistered
    => rdma_write_chunks = SelectSeq(DeclaredChunks(LastSendHdr), HasSegment)

\* C5 as stated: one entry for every declared write chunk.
C5_EntryPerDeclaredChunk ==
    WritesRegistered => rdma_write_chunks = DeclaredChunks(LastSendHdr)

\* C5 witness: a write list of two chunks, the second of two segments, all
\* registered, was processed into two entries.
C5_Witness ==
    /\ WritesRegistered
    /\ Len(rdma_write_chunks) = 2
    /\ Len(rdma_write_chunks[2]) = 2

\* ================================================== properties: trace reader
\* Two packets are the same to the caller: index, frame, time stamp and the
\* decoded and reassembled content.
SamePacket(p, q) ==
    /\ p.index = q.index
    /\ p.frame = q.frame
    /\ p.secs = q.secs
    /\ p.usecs = q.usecs
    /\ p.rpc = q.rpc
    /\ p.data = q.data

\* Two packets come from the same pcap record.
SameRecord(p, q) == p.tfile = q.tfile /\ p.recno = q.recno

\* The packets in since.got were read from the start of the trace.
FromStart ==
    since.kind = "start" \/ (since.kind = "rewind" /\ since.base = 0)

\* C6: when match(expr, rewind=True) finds no packet before the end of the
\* trace or before maxindex it returns None, and get_index() is afterwards
\* what it was just before the call, reading the trace (one file or a list)
\* and matching on a packet list.
C6_NoMatchRestoresIndex ==
    (out.op = "match" /\ out.ret = NonePkt /\ out.rw)
        => get_index(pktt) = out.before

\* C7 as stated: every packet returned by match(E), whatever maxindex, rewind
\* and reply, satisfies E evaluated on that packet alone.
C7_ReturnedSatisfiesExpr ==
    (out.op = "match" /\ out.ret # NonePkt) => Eval(out.expr, out.ret)

\* C7: every packet returned by match(E) satisfies E evaluated on that packet
\* alone, unless it was returned as the reply of a call matched before
\* (reply=True, reply_matched set), which is returned without evaluating E.
C7_EvaluatedSatisfiesExpr ==
    (out.op = "match" /\ out.ret # NonePkt /\ ~pktt.reply_matched)
        => Eval(out.expr, out.ret)

\* A match that went past packets to return one that satisfies its expression.
C7_Witness ==
    /\ out.op = "match"
    /\ out.ret # NonePkt
    /\ ~pktt.reply_matched
    /\ out.expr = "rpc.xid == 2"
    /\ out.ret.index > 0

\* C8: after rewind(i) to an index already processed, the calls to next()
\* yield the packets of the first pass from position i on, with the same
\* index, frame, time stamp and content, and end where the first pass ended.
C8_RewindReplaysFirstPass ==
    since.kind = "rewind" =>
        /\ \A j \in 1..Len(since.got) :
               /\ since.base + j <= Len(FirstPass[trace])
               /\ SamePacket(since.got[j], FirstPass[trace][since.base + j])
        /\ since.eof => since.base + Len(since.got) = Len(FirstPass[trace])

\* C9: reading a trace (one file or a list) from the start, the first packet
\* has index 0 and every later one the index of the one before it plus one.
C9_IndexCountsPackets ==
    FromStart => \A j \in 1..Len(since.got) : since.got[j].index = j - 1

\* All the packets of a list of files read from the start.
C9_Witness ==
    /\ since.kind = "start"
    /\ trace = "inter"
    /\ since.eof
    /\ Len(since.got) = 5

Awaited(list, xid) == \E i \in 1..Len(list) : list[i] = xid

\* A reply-mode match that starts at packet index from with the xid list
\* given passes over the packet: an RPC reply whose xid is in the list.
AwaitedReply(list, pkt) ==
    HasRpc(pkt) /\ pkt.rpc[1].type = REPLY /\ Awaited(list, pkt.rpc[1].xid)

\* The index of the packet after the last one a match read: that of the
\* packet it returned, or the end of the trace.
ReadUpTo(ret) ==
    IF ret = NonePkt THEN Len(FirstPass[trace]) ELSE ret.index

\* C11: in reply mode, once match has returned a call of xid x, the next
\* reply of xid x that a reply-mode match meets is returned, whatever the
\* expression (the match passes over no reply whose xid is awaited), and
\* once that reply is returned x is not among the awaited xids any more.
C11_ReplyClosesXid ==
    [][out'.op = "match" =>
          /\ \A j \in (pktt.index + 1)..ReadUpTo(out'.ret) :
                 ~AwaitedReply(pktt.match_xid_list, FirstPass[trace][j])
          /\ pktt'.reply_matched =>
                 ~Awaited(pktt'.match_xid_list, out'.ret.rpc[1].xid)]_vars

\* ================================================ properties: match errors
\* A search that reads one trace file ended at index: at the end of the
\* trace, or just after a packet whose index had reached its maxindex.
EndOfSearch(index) ==
    \/ index = Len(FirstPass[trace])
    \/ \E maxindex \in Maxindexes \ {0} : index - 1 >= maxindex

\* C12: a packet on which the evaluation of the expression raises an error
\* is not returned by match, and the search goes on after it: a match that
\* returns None has read on to the end of the trace or to its maxindex.
\* (match always returns to its caller.)
C12_ErrorIsNoMatch ==
    out.op = "match" =>
        /\ (out.ret # NonePkt /\ ~pktt.reply_matched)
               => ~Raises(out.expr, out.ret)
        /\ (out.ret = NonePkt /\ ~out.rw /\ pktt.pktlist = <<>>
              /\ Len(Traces[trace]) = 1)
               => EndOfSearch(pktt.index)

\* A match that began at a packet without the layer of its expression, went
\* on and returned the packet after it.
C12_Witness ==
    /\ trace = "split"
    /\ out.op = "match"
    /\ out.before = 0
    /\ out.ret # NonePkt
    /\ out.ret.index = 1
    /\ ~pktt.reply_matched
    /\ Raises(out.expr, FirstPass[trace][1])

\* ============================================ properties: buffered matching
\* The state of the reader: packet index, frame counter, file offset and the
\* tables of the decoders, of the object and of the objects of its list.
ReaderState(x) ==
    <<x.index, x.frame, x.offset, x.boffset, x.eof, x.tcp_stream_map,
      x.rpc_xid_map, x.pktt_list>>

\* C13: while a packet list is set, a call of match or rewind moves only
\* the cursor of the list: the reader's packet index, frame counter, file
\* offset and tables stay as they were.
C13_BufferedLeavesReader ==
    [][(pktt.pktlist # <<>> /\ out'.op \in {"match", "rewind"})
          => ReaderState(pktt') = ReaderState(pktt)]_vars

\* A match on the packet list that went past the first packet of the list,
\* the reader being at the end of its trace.
C13_Witness ==
    /\ pktt.pktlist # <<>>
    /\ out.op = "match"
    /\ out.ret # NonePkt
    /\ pktt.pindex > 1
    /\ pktt.index = Len(FirstPass[trace])

\* ============================================ properties: packets by index
\* C14: x[i] returns the packet whose record.index is i or raises IndexError,
\* and it raises IndexError for every negative i and every i at or beyond
\* the number of packets of the trace, from any position of the reader.
C14_ItemOrIndexError ==
    out.op = "getitem" =>
        /\ out.ret # NonePkt => out.ret.index = out.before
        /\ (out.before < 0 \/ out.before >= Len(FirstPass[trace]))
               => out.ret = NonePkt

\* ========================================== properties: state over a rewind
\* A rewind(i) has just succeeded on an object that reads one file.
Rewound ==
    /\ since.kind = "rewind" /\ since.got = <<>> /\ ~since.eof
    /\ Len(Traces[trace]) = 1

\* The tables that the rewind of one file is to empty.
Reassembly(x) == <<x.tcp_stream_map, x.rpc_xid_map, x.rdma_info>>

\* C15: a rewind(i) that succeeds on a trace of one file empties the TCP
\* stream table, the XID map and the RDMA segment table before it replays,
\* so that packet i is decoded with the tables as packets 0 .. i-1 make them.
C15_RewindClearsTables ==
    Rewound => Reassembly(pktt) = Reassembly(FirstState[trace][since.base])

C15_Witness ==
    /\ Rewound /\ trace = "tables" /\ since.base = 1 /\ out.op = "rewind"
    /\ pktt.rdma_info = {1}
    /\ pktt.ipv4_fragments # {}

\* The tables of fragments: IPv4 fragments and fragments of iWARP Sends.
Fragments(x) == <<x.ipv4_fragments, x.senddata>>

\* C16: after a rewind the IPv4 fragment table and the iWARP Send table hold
\* no entry made before the rewind: they hold what the packets read again,
\* 0 .. i-1, put there.
C16_RewindClearsFragments ==
    Rewound => Fragments(pktt) = Fragments(FirstState[trace][since.base])

\* ================================== properties: state from file to file
\* The last call was a next(self) that yielded the last packet of the file
\* of object f while another object has packets left, and f holds TCP
\* streams or RDMA segments.
Finishing(x, o, f) ==
    /\ o.op = "next" /\ x.pkt.kind = "pkt" /\ x.tfile = f
    /\ x.pktt_list[f].eof
    /\ \E j \in 1..Len(x.pktt_list) : ~x.pktt_list[j].eof
    /\ DOMAIN x.pktt_list[f].tcp_stream_map # {} \/ x.pktt_list[f].rdma_info # {}

\* The tables of object f are all found in object k.
Carried(f, k) ==
    /\ DOMAIN f.tcp_stream_map \subseteq DOMAIN k.tcp_stream_map
    /\ f.rdma_info \subseteq k.rdma_info
    /\ \A xid \in DOMAIN f.rpc_xid_map :
           xid \in DOMAIN k.rpc_xid_map /\ k.rpc_xid_map[xid] = f.rpc_xid_map[xid]

\* C17: when an object reaches the end of its file while another has packets
\* left and it holds TCP streams or RDMA segments, its TCP stream table, RDMA
\* segment table and XID map are all carried into the object that yields the
\* next packet, and that packet is decoded with them.
C17_StateCarried ==
    [][\A f \in 1..Len(pktt.pktt_list) :
          (Finishing(pktt, out, f) /\ out'.op = "next" /\ pktt'.index > pktt.index)
              => /\ Carried(pktt.pktt_list[f], pktt'.pktt_list[pktt'.tfile])
                 /\ pktt'.pkt.call = CallOf(pktt.pktt_list[f].rpc_xid_map,
                                            pktt'.pkt.rpc)]_vars

\* ===================================== properties: order over several files
\* The packets yielded by next(self) alone since the object was made.
Yielded == IF since.kind = "start" THEN since.got ELSE <<>>

\* Packet p comes before packet q in the order (file, record, message of a
\* TCP segment that holds more than one).
FileOrder(p, q) ==
    \/ p.tfile < q.tfile
    \/ p.tfile = q.tfile /\ p.recno < q.recno
    \/ /\ p.tfile = q.tfile /\ p.recno = q.recno
       /\ Len(p.data) = 2 /\ Len(q.data) = 2 /\ p.data[2] < q.data[2]

Waiting(r) ==
    IF r.pkt = NonePkt
    THEN [tfile |-> r.tfile, recno |-> 1, secs |-> Traces[trace][r.tfile][1].secs]
    ELSE [tfile |-> r.tfile, recno |-> r.pkt.recno, secs |-> r.pkt.secs]

\* The packets that object r has taken from its file, the head with them.
Taken(r) == IF r.pkt = NonePkt THEN 1 ELSE r.index

\* The objects of the list that are not at the end of their file.
Live(list) == {i \in 1..Len(list) : ~list[i].eof}

\* Object k of list has the lowest seconds waiting.
IsLowest(list, k) ==
    k \in Live(list) /\ \A j \in Live(list) : Waiting(list[k]).secs <= Waiting(list[j]).secs

\* From list to after, object k alone has gone on to its next packet.
OnlyAdvanced(list, after, k) ==
    /\ after[k].eof \/ after[k].index = Taken(list[k]) + 1
    /\ \A j \in 1..Len(list) :
           j # k => after[j].index = Taken(list[j]) /\ after[j].eof = list[j].eof

\* C19: every next() on a list of files returns the packet waiting in an
\* object whose seconds are the lowest among the objects not at the end of
\* their file and moves that object alone, and it ends the iteration only
\* when every object is at the end of its file.
C19_LowestHeadNext ==
    [][(out'.op = "next" /\ Len(pktt.pktt_list) > 1) =>
          IF pktt'.index = pktt.index
          THEN Live(pktt.pktt_list) = {}
          ELSE /\ IsLowest(pktt.pktt_list, pktt'.tfile)
               /\ Waiting([pkt |-> pktt'.pkt, tfile |-> pktt'.tfile])
                      = Waiting(pktt.pktt_list[pktt'.tfile])
               /\ OnlyAdvanced(pktt.pktt_list, pktt'.pktt_list, pktt'.tfile)]_vars

C19_Witness ==
    /\ trace = "inter" /\ out.op = "next" /\ pktt.index = 2
    /\ pktt.tfile = 2 /\ pktt.pkt.secs = 2
    /\ pktt.pktt_list[1].index = 2 /\ pktt.pktt_list[2].index = 2

\* ============================================ properties: a live capture
\* A step of a call of next(self) on an object made with live=True.
LiveStep == pktt.live /\ out'.op = "next" /\ <<pktt, out>>' # <<pktt, out>>

\* The call goes on: it has a packet or waits for one.
GoesOn(ret) == ret.kind = "pkt" \/ ret = Slept

\* From object x to object y the count of frames and the state of the TCP
\* and RDMA decoders are kept.
KeepsState(x, y) ==
    /\ y.frame >= x.frame
    /\ DOMAIN x.tcp_stream_map \subseteq DOMAIN y.tcp_stream_map
    /\ x.rdma_info \subseteq y.rdma_info

\* C20: read with live=True, an object that comes to the end of what is
\* written of its file goes on with the next file of the series when there
\* is one, with the frame count and the TCP and RDMA state it had, and waits
\* and reads again when there is none; it does not end the iteration.
C20_LiveRollover ==
    [][LiveStep =>
          /\ ~pktt'.eof
          /\ GoesOn(out'.ret)
          /\ pktt'.findex # pktt.findex => KeepsState(pktt, pktt')]_vars

\* ======================================= properties: a record cut short
\* The object x, which reads one file, is at the last record of the file and
\* the file does not hold that record whole.
AtCut(x) ==
    /\ trace \in CutTraces /\ x.fh /\ ~x.eof
    /\ x.offset - HeaderSize + 1 = Len(Traces[trace][1])

\* C21: when the last record of a file is cut short, in its header or in its
\* data, next() ends the iteration: it yields no packet for that record and
\* the packet index stays as it was.
C21_TruncatedEndsIteration ==
    [][(AtCut(pktt) /\ out'.op = "next") =>
          /\ pktt'.eof /\ since'.eof
          /\ since'.got = since.got
          /\ pktt'.index = pktt.index]_vars

C21_Witness ==
    /\ trace = "cutdata" /\ out.op = "next" /\ since.kind = "start"
    /\ since.eof /\ Len(since.got) = 2 /\ pktt.index = 2 /\ pktt.eof

\* ===================================== properties: the RDMA segment table
\* The segments that the read list and the write list of header h name.
Named(h) ==
    SeqRange(Headers[h].reads)
    \cup UNION {SeqRange(Headers[h].writes[c]) : c \in 1..Len(Headers[h].writes)}

\* Object b is object a but for its declared length.
SameButLength(a, b) == [b EXCEPT !.length = a.length] = a

\* The entries the table tab has under key.
Entries(tab, key) == {i \in 1..Len(tab) : tab[i].key = key}

\* C22: registering a segment whose handle is in the segment table changes
\* the declared length of that segment alone: its sub-segments, fragments,
\* offset, XDR position and saved header stay, and the handle keeps its one
\* entry in the table.
C22_DuplicateUpdatesLength ==
    [][(nframes' # nframes /\ LastSendHdr' # 0) =>
          \A seg \in Named(LastSendHdr') :
              TabGet(rdma_segments, seg.handle) # 0 =>
                  /\ TabGet(rdma_segments', seg.handle)
                         = TabGet(rdma_segments, seg.handle)
                  /\ Cardinality(Entries(rdma_segments', seg.handle)) = 1
                  /\ \A i \in (Len(heap) + 1)..Len(heap') :
                         heap'[i].handle # seg.handle
                  /\ SameButLength(heap[TabGet(rdma_segments, seg.handle)],
                                   heap'[TabGet(rdma_segments, seg.handle)])
                  /\ heap'[TabGet(rdma_segments, seg.handle)].length = seg.length]_vars

C22_Witness ==
    /\ LastSendHdr = 9
    /\ ObjBefore(1) # 0
    /\ last_op.heap[ObjBefore(1)].length = 2
    /\ heap[ObjBefore(1)].length = 1
    /\ heap[ObjBefore(1)].fragments # EmptyMap

\* ---------------------------------------------------------------- C23
\* The objects the table holds under any key.
Tabled == {rdma_segments[i].obj : i \in 1..Len(rdma_segments)}

\* The objects the segments of a list stood for before the last frame.
ObjsOf(target) == {ObjBefore(target[k].handle) : k \in 1..Len(target)} \ {0}

\* The segments the message delivered as entry i of the log consumed: the read
\* list of its header when read chunks were reassembled, else the segments of
\* its write list exposed to the reply and those of its reply chunk.
ReadConsumed(i) == ObjsOf(Headers[rpc_log[i].hdr].reads)
WriteConsumed(i) ==
    UNION {SeqRange(rdma_write_chunks[c]) : c \in 1..Len(rdma_write_chunks)}
ReplyConsumed(i) ==
    IF Headers[rpc_log[i].hdr].reply = <<>> THEN {}
    ELSE ObjsOf(Headers[rpc_log[i].hdr].reply[1])

ReadsFreed ==
    \A i \in LastDelivered :
        Headers[rpc_log[i].hdr].reads # <<>> => ReadConsumed(i) \cap Tabled = {}
ReplyFreed ==
    \A i \in LastDelivered :
        Headers[rpc_log[i].hdr].proc = "RDMA_NOMSG" => ReplyConsumed(i) \cap Tabled = {}
WritesFreed ==
    \A i \in LastDelivered :
        (Headers[rpc_log[i].hdr].reads = <<>> /\ Headers[rpc_log[i].hdr].writes # <<>>)
            => WriteConsumed(i) \cap Tabled = {}

\* C23: once a message was given to the RPC decoder, the segments it consumed
\* (reassembled read chunks, write chunks exposed to the reply, the reply
\* chunk) are in the segment table under no key.
C23_ConsumedSegmentsFreed == ReadsFreed /\ ReplyFreed /\ WritesFreed

\* ---------------------------------------------------------------- C24
\* The handle a chunk byte was written under.
HandleOf(byte) == byte \div 10

\* The place of a handle in a target list.
PlaceIn(target, handle) ==
    CHOOSE k \in 1..Len(target) : target[k].handle = handle

\* Every byte the segments of a target list held before the last frame.
HeldBy(target) == UNION {BytesIn(last_op.heap[o]) : o \in ObjsOf(target)}

\* The bytes are those the segments of the target list held, each once, the
\* bytes of a segment earlier in the list before those of a later one.
WholeReply(data, target) ==
    /\ SeqRange(data) = HeldBy(target)
    /\ Cardinality(SeqRange(data)) = Len(data)
    /\ \A m, n \in 1..Len(data) :
          m < n => PlaceIn(target, HandleOf(data[m]))
                      <= PlaceIn(target, HandleOf(data[n]))

\* The Send decoded last was an RDMA_NOMSG one.
NoMsgSend == LastSendHdr # 0 /\ Headers[LastSendHdr].proc = "RDMA_NOMSG"

C24_NoData ==
    /\ NoMsgSend
    /\ ObjsOf(Headers[LastSendHdr].reply[1]) # {}
    /\ HeldBy(Headers[LastSendHdr].reply[1]) = {}
    /\ LastDelivered = {}

\* ---------------------------------------------------------------- C25
RECURSIVE UpTo(_, _)
\* The fragments at the offsets 0..o put together, lowest offset first.
UpTo(frags, o) ==
    IF o < 0 THEN <<>>
    ELSE UpTo(frags, o - 1) \o (IF o \in DOMAIN frags THEN frags[o] ELSE <<>>)

\* The fragments of a map put together in ascending offset.
ByOffset(frags) ==
    UpTo(frags, CHOOSE o \in DOMAIN frags : \A p \in DOMAIN frags : p <= o)

\* The reassembly table has an entry for the message of a fragment.
Saved(table, f) ==
    f.queue \in DOMAIN table /\ f.msn \in DOMAIN table[f.queue]

\* All the fragments of the message of f seen up to f, f among them.
AllFragments(f) ==
    MapPut(IF Saved(senddata, f) THEN senddata[f.queue][f.msn] ELSE EmptyMap,
           f.offset, f.data)

\* The decoder was given these bytes on the frame just decoded: when they
\* begin with a header, an RDMA_MSG with no read list has its bytes after the
\* header given to the RPC decoder, and a read list not yet registered is
\* registered with the header and the bytes after it saved.
GivenToDecoder(bytes) ==
    RPCoRDMA(bytes).ok =>
        LET h == RPCoRDMA(bytes).hdr
        IN  /\ (Headers[h].proc = "RDMA_MSG" /\ Headers[h].reads = <<>>) =>
                  /\ Len(rpc_log') = Len(rpc_log) + 1
                  /\ rpc_log'[Len(rpc_log')].hdr = h
                  /\ rpc_log'[Len(rpc_log')].data = RPCoRDMA(bytes).rest
            /\ \A k \in 1..Len(Headers[h].reads) :
                  TabGet(rdma_segments, Headers[h].reads[k].handle) = 0 =>
                      /\ TabGet(rdma_segments', Headers[h].reads[k].handle) # 0
                      /\ heap'[TabGet(rdma_segments', Headers[h].reads[k].handle)].rpcrdma
                            = [hdr |-> h, data |-> RPCoRDMA(bytes).rest]

\* C25: a Send fragment without the Last flag yields no RPC-over-RDMA or RPC
\* layer; on the fragment with the Last flag the decoder is given all the
\* fragments of the message in ascending offset, in whatever order the earlier
\* ones arrived; after it the reassembly table has no entry for the message.
C25_SendReassembledOnLast ==
    [][(nframes' # nframes /\ last_op'.frame.op = "Send") =>
          IF last_op'.frame.lastfl = 0
          THEN /\ rpc_log' = rpc_log
               /\ rdma_segments' = rdma_segments
               /\ heap' = heap
               /\ rdma_write_chunks' = rdma_write_chunks
               /\ Saved(senddata', last_op'.frame)
          ELSE /\ GivenToDecoder(ByOffset(AllFragments(last_op'.frame)))
               /\ ~Saved(senddata', last_op'.frame)]_vars

\* C25 witness: the Send of three fragments was reassembled on its Last one
\* into header 6 and the bytes 3 4, and nothing is saved for it any more.
C25_Witness ==
    /\ scn = "sendfrag"
    /\ last_op.frame = SendF(1, 1, 2, 1, <<4>>)
    /\ \E i \in LastDelivered :
          rpc_log[i].hdr = 6 /\ rpc_log[i].data = <<3, 4>>
    /\ ~Saved(senddata, last_op.frame)

\* ---------------------------------------------------------------- C26
\* The packet has a layer of this name.
HasLayer(pkt, name) == \E n \in 1..Len(pkt.layers) : pkt.layers[n] = name

\* What the comparison of a packet with a value is to yield.
EqualTo(p, other) ==
    IF IsStr(other) THEN HasLayer(packets[p], lower(other.s))
    ELSE other.t = "pkt" /\ other.p = p

\* C26: a packet compared with a string is equal exactly when it has a layer
\* of that name, whatever the case of the letters; compared with anything else
\* it is equal to itself only; != is the negation of ==.
C26_EqualityIsPresenceOrIdentity ==
    /\ call.op = "eq" => call.ret = EqualTo(call.self, call.other)
    /\ call.op = "ne" => call.ret = ~EqualTo(call.self, call.other)

\* The parts of C26: strings that name layers the decoders attach, and the
\* negation.
LayerStrings == {o \in Strings : lower(o.s) \in LayerNames}
C26_LayerPresence ==
    (call.op = "eq" /\ call.other \in LayerStrings)
        => call.ret = HasLayer(packets[call.self], lower(call.other.s))
C26_Negation ==
    [][(call'.op = "ne" /\ call.op = "eq" /\ call.self = call'.self
           /\ call.other = call'.other) => call'.ret = ~call.ret]_vars

\* ---------------------------------------------------------------- C27
\* No name is twice in a list.
NoTwice(list) == \A m, n \in 1..Len(list) : list[m] = list[n] => m = n

\* C27: the layer list of every packet holds each name at most once, begins
\* with record, and an attachment puts its name at the end of the list.
C27_LayersOnceInOrder ==
    /\ \A p \in 1..Len(packets) :
          /\ NoTwice(packets[p].layers)
          /\ packets[p].layers[1] = RecordName
    /\ call.op = "add_layer"
          => packets[call.self].layers = Append(call.before, call.name)

\* The part of C27 about the order.
C27_AttachmentOrder ==
    /\ \A p \in 1..Len(packets) : packets[p].layers[1] = RecordName
    /\ call.op = "add_layer"
          => packets[call.self].layers = Append(call.before, call.name)

\* ---------------------------------------------------------------- C28
\* How python groups the operands of a text: the expression grammar for the
\* operators of the model, loosest first: or, and, not, comparison (chained),
\* binary -, *, unary -, ** (its left operand a primary, its right one a
\* unary), names and parentheses.  The call of a wrapper stands for its
\* argument, which the wrapper evaluates as an expression of its own.
EndTok == [k |-> "end", v |-> ""]
TokAt(toks, p) == IF p \in 1..Len(toks) THEN toks[p] ELSE EndTok
IsOp(tok, v) == tok.k = "op" /\ tok.v = v
ErrTree == [k |-> "SyntaxError"]
Parsed(t, p) == [t |-> t, p |-> p]

\* The tree of operands joined by one logical operator, of one operand alone.
MkBool(op, vals) == IF Len(vals) = 1 THEN vals[1] ELSE BoolOp(op, vals)
\* The tree of a chain of comparisons, of one operand alone.
MkCompare(ops, operands) ==
    IF ops = <<>> THEN operands[1] ELSE CompareOp(operands[1], ops, Tail(operands))
\* The tree so far (if any) joined with the next operand, left to right.
MkLeft(op, acc, t) == IF acc = <<>> THEN t ELSE BinOp(op, acc[1], t)
WithUnary(op, r) == Parsed(UnaryOp(op, r.t), r.p)
WithBinary(op, left, r) == Parsed(BinOp(op, left, r.t), r.p)

RECURSIVE p_or(_, _), p_or_rest(_, _, _), p_and(_, _), p_and_rest(_, _, _),
          p_not(_, _), p_cmp(_, _), p_cmp_rest(_, _, _, _), p_arith(_, _),
          p_arith_rest(_, _, _), p_term(_, _), p_term_rest(_, _, _),
          p_factor(_, _), p_power(_, _), p_power_rest(_, _), p_atom(_, _),
          p_close(_, _), Evaluated(_)

\* The text with every call of a wrapper replaced by its argument in
\* parentheses.
Evaluated(toks) ==
    IF toks = <<>> THEN <<>>
    ELSE (IF Head(toks).k = "call"
          THEN <<OpTok("(")>> \o Evaluated(Head(toks).arg) \o <<OpTok(")")>>
          ELSE <<Head(toks)>>)
         \o Evaluated(Tail(toks))

\* Each p_x(toks, p) reads one x from position p on: [t |-> tree, p |-> the
\* position after it]; each p_x_rest is given the operand read last.
p_or(toks, p) == p_or_rest(toks, <<>>, p_and(toks, p))
p_or_rest(toks, vals, r) ==
    IF IsOp(TokAt(toks, r.p), "or")
    THEN p_or_rest(toks, Append(vals, r.t), p_and(toks, r.p + 1))
    ELSE Parsed(MkBool("Or", Append(vals, r.t)), r.p)
p_and(toks, p) == p_and_rest(toks, <<>>, p_not(toks, p))
p_and_rest(toks, vals, r) ==
    IF IsOp(TokAt(toks, r.p), "and")
    THEN p_and_rest(toks, Append(vals, r.t), p_not(toks, r.p + 1))
    ELSE Parsed(MkBool("And", Append(vals, r.t)), r.p)
p_not(toks, p) ==
    IF IsOp(TokAt(toks, p), "not") THEN WithUnary("Not", p_not(toks, p + 1))
    ELSE p_cmp(toks, p)
p_cmp(toks, p) == p_cmp_rest(toks, <<>>, <<>>, p_arith(toks, p))
p_cmp_rest(toks, ops, operands, r) ==
    IF IsOp(TokAt(toks, r.p), "==")
    THEN p_cmp_rest(toks, Append(ops, "Eq"), Append(operands, r.t),
                    p_arith(toks, r.p + 1))
    ELSE Parsed(MkCompare(ops, Append(operands, r.t)), r.p)
p_arith(toks, p) == p_arith_rest(toks, <<>>, p_term(toks, p))
p_arith_rest(toks, acc, r) ==
    IF IsOp(TokAt(toks, r.p), "-")
    THEN p_arith_rest(toks, <<MkLeft("Sub", acc, r.t)>>, p_term(toks, r.p + 1))
    ELSE Parsed(MkLeft("Sub", acc, r.t), r.p)
p_term(toks, p) == p_term_rest(toks, <<>>, p_factor(toks, p))
p_term_rest(toks, acc, r) ==
    IF IsOp(TokAt(toks, r.p), "*")
    THEN p_term_rest(toks, <<MkLeft("Mult", acc, r.t)>>, p_factor(toks, r.p + 1))
    ELSE Parsed(MkLeft("Mult", acc, r.t), r.p)
p_factor(toks, p) ==
    IF IsOp(TokAt(toks, p), "-") THEN WithUnary("USub", p_factor(toks, p + 1))
    ELSE p_power(toks, p)
p_power(toks, p) == p_power_rest(toks, p_atom(toks, p))
p_power_rest(toks, a) ==
    IF IsOp(TokAt(toks, a.p), "**")
    THEN WithBinary("Pow", a.t, p_factor(toks, a.p + 1))
    ELSE a
p_atom(toks, p) ==
    IF TokAt(toks, p).k = "name" THEN Parsed(Name(TokAt(toks, p).v), p + 1)
    ELSE IF IsOp(TokAt(toks, p), "(") THEN p_close(toks, p_or(toks, p + 1))
    ELSE Parsed(ErrTree, p)
p_close(toks, r) ==
    IF IsOp(TokAt(toks, r.p), ")") THEN Parsed(r.t, r.p + 1)
    ELSE Parsed(ErrTree, r.p)

\* The whole text was read.
Whole(toks, r) == IF r.p = Len(toks) + 1 THEN r.t ELSE ErrTree

\* The tree python reads a text as, or SyntaxError.
Grouping(toks) == Whole(Evaluated(toks), p_or(Evaluated(toks), 1))

\* C28: the text an expression is compiled to groups its operands as the
\* expression does.
C28_CompiledKeepsGrouping ==
    (call.op = "convert_match" /\ ~call.ret.raised)
        => Grouping(call.ret.text) = call.tree

RECURSIVE Simple(_)
\* An expression of and, or and comparisons whose operands are names.
Simple(tree) ==
    IF tree.k = "BoolOp" THEN \A i \in 1..Len(tree.values) : Simple(tree.values[i])
    ELSE /\ tree.k = "Compare"
         /\ tree.left.k = "Name"
         /\ \A i \in 1..Len(tree.comparators) : tree.comparators[i].k = "Name"

\* The part of C28 that holds: comparisons of names joined by and and or, in
\* any nesting, keep their grouping.
C28_SimpleKeepsGrouping ==
    (call.op = "convert_match" /\ Simple(call.tree))
        => ~call.ret.raised /\ Grouping(call.ret.text) = call.tree

\* ---------------------------------------------------------------- C29
\* The operation satisfies the sub-predicate.
Satisfies(expr, nfs) == expr.field \in DOMAIN nfs /\ nfs[expr.field] = expr.value

\* The places of the array whose operation satisfies the sub-predicate.
Satisfying(expr, array) == {n \in 1..Len(array) : Satisfies(expr, array[n])}

FirstOf(S) == CHOOSE n \in S : \A k \in S : n <= k

\* C29: a sub-predicate on the operations of an NFSv4 compound is true when
\* some operation of the array satisfies it; NFSop is then the first such
\* operation in array order and NFSidx its position in the array.
C29_FirstSatisfyingOperation ==
    call.op = "match_nfs" =>
        /\ call.ret = (Satisfying(call.expr, call.array) # {})
        /\ call.ret =>
              /\ call.nfsop = call.array[FirstOf(Satisfying(call.expr, call.array))]
              /\ call.nfsidx = FirstOf(Satisfying(call.expr, call.array)) - 1

\* The parts of C29 that hold: true exactly when some operation satisfies the
\* sub-predicate, and the operation and position recorded are right when one
\* operation alone satisfies it.
C29_TrueWhenAnySatisfies ==
    call.op = "match_nfs" => call.ret = (Satisfying(call.expr, call.array) # {})
C29_RightWhenOneSatisfies ==
    (call.op = "match_nfs" /\ Cardinality(Satisfying(call.expr, call.array)) = 1)
        => /\ call.nfsop = call.array[FirstOf(Satisfying(call.expr, call.array))]
           /\ call.nfsidx = FirstOf(Satisfying(call.expr, call.array)) - 1

\* ================================================== properties: escape
\* C30: for every string, single quotes, double quotes, back quotes,
\* backslashes and non-printable characters included, the literal made of
\* escape(s) between single quotes and the one between double quotes both
\* evaluate to s.
C30_EscapeRoundTrip ==
    call.op = "eval" => (~call.raised /\ call.value = call.data)

\* A string of a backslash, a single quote and a double quote came back from
\* the literal in double quotes.
C30_Witness ==
    /\ call.op = "eval"
    /\ call.quote = DQ
    /\ call.data = <<BS, SQ, DQ>>
    /\ call.expr = <<DQ, BS, BS, BS, "x", "2", "7", BS, "x", "2", "2", DQ>>
    /\ call.value = call.data

\* ================================================== properties: maxindex
\* The match calls with a maxindex of their own.
Limits == Maxindexes \ {0}

\* A step is match(expr, maxindex=m, rewind=rw, reply=reply).
LimitedMatch(m, rw) ==
    \E expr \in Exprs, reply \in BOOLEAN : PkttMatch(expr, m, rw, reply)

\* C31: match(expr, maxindex=m) with m > 0 never returns a packet whose
\* record.index is m or greater, as an expression match or as the reply of a
\* call matched before, reading the trace or matching on a packet list; the
\* search fails at the first packet whose index reaches m.
C31_MaxindexBounds ==
    [][\A m \in Limits, rw \in BOOLEAN :
          LimitedMatch(m, rw) =>
              /\ out'.ret # NonePkt => out'.ret.index < m
              /\ (pktt.pktlist = <<>> /\ ~rw /\ out'.ret = NonePkt
                     /\ pktt.index <= m)
                    => pktt'.index <= m + 1]_vars

\* A match from the start of a trace with more packets than it read failed
\* without rewinding: it stopped at the packet with index 2, which is a reply
\* to a call (an expression with no maxindex reads to the end of the trace).
C31_Witness ==
    /\ out.op = "match"
    /\ out.ret = NonePkt
    /\ ~out.rw
    /\ out.before = 0
    /\ pktt.pktlist = <<>>
    /\ pktt.index = 3
    /\ Len(FirstPass[trace]) > 3
    /\ FirstPass[trace][3].index = 2

\* ================================================== properties: fragments
\* Whether a fragment with this PSN is in hist, and the payload of the last.
Seen(hist, psn) == \E i \in 1..Len(hist) : hist[i].psn = psn

MostRecent(hist, psn) ==
    hist[CHOOSE i \in 1..Len(hist) :
             /\ hist[i].psn = psn
             /\ \A j \in (i + 1)..Len(hist) : hist[j].psn # psn].data

\* The most recent payloads of the PSNs from psn to epsn, in ascending order.
RECURSIVE InPsnOrder(_, _, _)
InPsnOrder(hist, psn, epsn) ==
    IF psn > epsn THEN <<>>
    ELSE (IF Seen(hist, psn) THEN MostRecent(hist, psn) ELSE <<>>)
         \o InPsnOrder(hist, psn + 1, epsn)

\* C32: after fragments with PSNs of the window [spsn, epsn] were inserted in
\* any arrival order, a PSN repeated or not, the data of the sub-segment is
\* the concatenation in ascending PSN order of the most recent fragment of
\* each PSN seen; a PSN not seen yet gives no bytes.
C32_DataInPsnOrder ==
    call.op = "add_data" =>
        \A i \in 1..Len(call.rs.seglist) :
            seg_get_data(call.rs.seglist[i], TRUE)
                = InPsnOrder(call.hist, call.rs.seglist[i].spsn,
                             call.rs.seglist[i].epsn)

\* The second PSN of a window came first, then the first PSN twice: the hole
\* was filled and the repeated fragment replaced.
C32_Witness ==
    /\ call.op = "add_data"
    /\ call.hist = << [psn |-> FirstPsn + 1, data |-> <<1>>],
                      [psn |-> FirstPsn, data |-> <<1>>],
                      [psn |-> FirstPsn, data |-> <<2, 3>>] >>
    /\ call.rs.seglist[1].epsn = FirstPsn + 1
    /\ seg_get_data(call.rs.seglist[1], TRUE) = <<2, 3, 1>>

\* ================================================== properties: discarded
\* The PSN lies in the window of a sub-segment of a segment of the table.
KnownPsn(tab, hp, psn) ==
    \E i \in 1..Len(tab) : valid_psn(hp[tab[i].obj], psn)

\* A fragment with a handle (RETH r_key, iWARP STag) that is not in the table.
UnknownHandle(f, tab) ==
    \/ f.op = "IB" /\ f.reth # <<>> /\ get_rdma_segment(tab, f.reth[1].r_key) = 0
    \/ f.op \in {"RDMA_Write", "RDMA_Read_Response"}
          /\ get_rdma_segment(tab, f.stag) = 0

\* A fragment without RETH whose PSN is in no window.
UnknownPsn(f, tab, hp) ==
    f.op = "IB" /\ f.reth = <<>> /\ ~KnownPsn(tab, hp, f.psn)

\* C33: a write or read fragment whose handle is not in the segment table, or
\* a fragment without RETH whose PSN lies in no sub-segment window of any
\* registered segment, is discarded: the segment table and all the segment
\* data accumulated are what they were before it.
C33_UnknownFragmentDiscarded ==
    (UnknownHandle(last_op.frame, last_op.tab)
        \/ UnknownPsn(last_op.frame, last_op.tab, last_op.heap))
    => (rdma_segments = last_op.tab /\ heap = last_op.heap)

\* A Write Last came for a table that has a segment but no window with its
\* PSN (the Write First was lost), and was dropped.
C33_Witness ==
    /\ last_op.frame = IbF("RDMA_WRITE_Last", 2, <<>>, <<ChunkByte(1, 1)>>)
    /\ last_op.tab # <<>>
    /\ UnknownPsn(last_op.frame, last_op.tab, last_op.heap)
    /\ heap = last_op.heap

\* A Write First with RETH came before its segment was registered.
C33_UnknownHandle ==
    /\ last_op.frame.op = "IB"
    /\ UnknownHandle(last_op.frame, last_op.tab)

\* ================================================== properties: rejection
\* The decoder rejected its input: DDP for reserved bits or a version that is
\* not 1, RDMAP for a version that is not 0 or 1 or for reserved bits, MPA
\* for a length that does not match with no request or reply key.
Rejected ==
    \/ call.op = "DDP" /\ (call.in.reserved # 0 \/ call.in.version # 1)
    \/ call.op = "RDMAP" /\ (call.in.version \notin {0, 1} \/ call.in.reserved # 0)
    \/ call.op = "MPA" /\ call.in.mpalen # MpaSize(call.entry, call.in)
          /\ call.in.key = "other"

\* C34: when the DDP, RDMAP or MPA decoder rejects its input it attaches no
\* layer to the packet, and on return the cursor is at the offset it had when
\* the decoder was entered.
C34_RejectedRestoresCursor ==
    Rejected => (call.pkt = PktObj /\ call.u = call.entry)

\* DDP read its six bytes at offset 14, found version 2, and went back.
C34_Witness ==
    /\ call.op = "DDP"
    /\ call.in.version = 2
    /\ call.entry.pos = 14
    /\ call.u.pos = 14
    /\ get_layers(call.pkt) = <<RecordName>>

\* MPA found the length "MP", read the sixteen bytes of a key that is none,
\* and went back.
C34_MpaRejected ==
    /\ call.op = "MPA"
    /\ call.in.mpalen = MP
    /\ call.in.key = "other"
    /\ call.u = call.entry

\* The three decoders accept other input and attach their layer.
C34_Accepted ==
    /\ call.op = "MPA"
    /\ call.in.mpalen = 18
    /\ get_layers(call.pkt) = <<RecordName, MpaName>>
    /\ call.u.pos = call.u.len

\* ================================================== properties: VLAN layers
\* The name of the i-th of k VLAN layers, from the outermost in.
VlanLayerName(i, k) == IF i = k THEN VlanName ELSE VlanName \o Str(i)

\* C35: for a frame with k >= 1 stacked VLAN tags vlan_layers ends and
\* attaches exactly k VLAN layers from the outermost in: the outer tags as
\* vlan1, vlan2, ... and the innermost last as vlan (vlan alone for k = 1).
C35_VlanLayersInOrder ==
    call.op = "vlan_layers" =>
        /\ get_layers(call.pkt)
              = <<RecordName>>
                \o [i \in 1..Len(call.tags) |-> VlanLayerName(i, Len(call.tags))]
        /\ \A i \in 1..Len(call.tags) :
              getattr_none(call.pkt, VlanLayerName(i, Len(call.tags))).v
                  = call.tags[i]

\* Three tags: vlan1 and vlan2 are the outer ones, vlan the innermost.
C35_Witness ==
    /\ call.op = "vlan_layers"
    /\ Len(call.tags) = 3
    /\ call.tags[1].vid = 1 /\ call.tags[2].vid = 2 /\ call.tags[3].vid = 3
    /\ get_layers(call.pkt)
          = <<RecordName, <<"v", "l", "a", "n", "1">>,
              <<"v", "l", "a", "n", "2">>, VlanName>>
    /\ getattr_none(call.pkt, VlanName).v.vid = 3

\* ================================================== properties: repetition
\* An RDMA Write First or Only fragment (the ones with RETH).
WriteFirstOrOnly(f) ==
    f.op = "IB" /\ f.opcode \in {"RDMA_WRITE_First", "RDMA_WRITE_Only"}

\* The table and the segments are the same in two states of the engine.
SameSegments(s, t) == s.tab = t.tab /\ s.heap = t.heap

\* C36: processing the same RDMA Write First or Only fragment (same handle,
\* PSN, DMA length and payload) a second time leaves the segment with the
\* same list of sub-segments, the same PSN windows and the same data as
\* processing it once.
C36_RepeatedWriteIsIdempotent ==
    \A f \in Scenarios[scn] :
        WriteFirstOrOnly(f) =>
            SameSegments(decode_ib(decode_ib(RdmaState, f), f),
                         decode_ib(RdmaState, f))

\* The Write First of a registered segment was processed again after the
\* Write Last had come: the window is still [1, 2] and both bytes are there.
C36_Witness ==
    /\ WriteFirstOrOnly(last_op.frame)
    /\ last_op.frame.opcode = "RDMA_WRITE_First"
    /\ last_op.tab # <<>>
    /\ last_op.heap = heap
    /\ \E i \in 1..Len(heap) :
          /\ Len(heap[i].seglist) = 1
          /\ heap[i].seglist[1].spsn = 1
          /\ heap[i].seglist[1].epsn = 2
          /\ heap[i].seglist[1].fraglist = <<last_op.frame.data, <<ChunkByte(1, 1)>> >>

\* ================================================== properties: table keys
\* The segment a key of the table maps to has the key as its handle or as
\* its read-response sink STag.
NamesItsSegment(e) ==
    heap[e.obj].handle = e.key \/ heap[e.obj].rhandle = e.key

\* C37: after any sequence of segment registrations, iWARP read requests and
\* segment deletions, every key of the RDMA segment table maps to a segment
\* whose handle, or whose current read-response sink STag, equals that key;
\* so after a segment is deleted no key of the table still maps to it.
C37_KeysNameTheirSegment ==
    \A i \in 1..Len(rdma_segments) : NamesItsSegment(rdma_segments[i])

\* A segment that was deleted (its handle is no key any more) is still in
\* the table, under a sink STag it had before.
C37_DeletedStillMapped ==
    \E i \in 1..Len(rdma_segments) :
        /\ ~NamesItsSegment(rdma_segments[i])
        /\ get_rdma_segment(rdma_segments,
                            heap[rdma_segments[i].obj].handle) = 0

\* ================================================== properties: write chunks
\* The RPC decoder was invoked for the frame decoded last.
RpcInvoked == rpc_log # <<>> /\ rpc_log[Len(rpc_log)].frame = nframes

\* The handles of the segments the write list of a header names.
NamedInWriteList(h) ==
    {Headers[h].writes[i][j].handle :
        <<i, j>> \in {<<a, b>> \in (DOMAIN Headers[h].writes) \X (1..4) :
                         b \in DOMAIN Headers[h].writes[a]}}

\* The handles of the segments rdma_write_chunks holds.
ExposedHandles ==
    {heap[rdma_write_chunks[i][j]].handle :
        <<i, j>> \in {<<a, b>> \in (DOMAIN rdma_write_chunks) \X (1..4) :
                         b \in DOMAIN rdma_write_chunks[a]}}

\* C38: whenever the RPC decoder is invoked for an RPC-over-RDMA message,
\* rdma_write_chunks contains only segments named in that message's own
\* write list, and is empty for a message that has no write list.
C38_ChunksOfThisMessage ==
    RpcInvoked =>
        /\ ExposedHandles \subseteq NamedInWriteList(rpc_log[Len(rpc_log)].hdr)
        /\ Headers[rpc_log[Len(rpc_log)].hdr].writes = <<>>
               => rdma_write_chunks = <<>>

\* The message with no chunk list was given to the RPC decoder while the
\* list still held the write chunk of the reply decoded before.
C38_StaleChunks ==
    /\ RpcInvoked
    /\ rpc_log[Len(rpc_log)].hdr = 12
    /\ rdma_write_chunks # <<>>

\* For a message that has a write list the list holds segments of that write
\* list only.
C38_OwnWriteList ==
    (RpcInvoked /\ Headers[rpc_log[Len(rpc_log)].hdr].writes # <<>>)
        => ExposedHandles \subseteq NamedInWriteList(rpc_log[Len(rpc_log)].hdr)

\* ================================================== properties: NFSop
\* The operation is an object of the compound of the packet.
OwnOperation(op, pkt) == \E n \in 1..Len(pkt.array) : pkt.array[n] = op

\* C39: for every packet returned by match(), NFSop is None or an operation
\* of the packet's own NFS layer, never an operation of a packet examined and
\* rejected earlier in the same search.
C39_NFSopOfReturnedPacket ==
    (call.op = "match" /\ call.ret.found) =>
        \/ call.ret.NFSop = <<>>
        \/ OwnOperation(call.ret.NFSop, call.ret.pkt)

\* A packet was returned with the operation of a packet rejected before it.
C39_StaleOperation ==
    /\ call.op = "match"
    /\ call.ret.found
    /\ call.ret.NFSop # <<>>
    /\ call.ret.NFSop.owner < call.ret.pkt.index

\* What holds: the operation is the packet's own when the NFS term is true on
\* the packet returned.
C39_OwnWhenNfsTermHolds ==
    (call.op = "match" /\ call.ret.found
     /\ match_nfs(NfsStatus0, call.ret.pkt.array, <<>>, -1).ret)
        => OwnOperation(call.ret.NFSop, call.ret.pkt)

\* ================================================== properties: _read, seek
\* C40: for any sequence of _read(n) and seek(offset) calls on a trace that
\* is not live, each _read returns the bytes of the file at
\* [offset, offset + n), cut short only at the end of the file, and advances
\* the offset by the number of bytes returned, as unbuffered reads would,
\* whenever the buffer is trimmed or refilled; and after a trim at least
\* READ_SIZE bytes before the read offset remain in the buffer.
C40_BufferedReadsAreFileReads ==
    call.op = "_read" =>
        /\ call.data = FileBytes(call.from, call.count)
        /\ call.r.offset = call.from + Len(call.data)
        /\ call.trimmed => call.behind >= READ_SIZE

\* A read after a seek past the end of the buffer returned other bytes than
\* the file has at the offset.
C40_WrongBytes ==
    /\ call.op = "_read"
    /\ call.data # FileBytes(call.from, call.count)

\* A trim left fewer than READ_SIZE bytes before the read offset.
C40_ShortTrim ==
    /\ call.op = "_read"
    /\ call.trimmed
    /\ call.behind < READ_SIZE

\* What holds: the offset advances by the bytes returned.
C40_OffsetAdvances ==
    call.op = "_read" => call.r.offset = call.from + Len(call.data)

\* The bytes are those of the file as long as no seek left the read offset
\* past the end of the buffer.
C40_RightWithoutSeekAhead ==
    (call.op = "_read" /\ ~call.ahead) =>
        call.data = FileBytes(call.from, call.count)

====
